---- MODULE Spec2Model ----
(***************************************************************************)
(* Statement ingestion pipeline of the expense tracker (src/lib/actions.ts) *)
(* processStatement -> parseStatementWithGemini -> parseStatement           *)
(* (CSV row mapping, plain-text line scanner) -> prisma createMany.         *)
(*                                                                         *)
(* Text is a sequence of one-character strings, so that the regular         *)
(* expressions, String.prototype methods and Number.parseFloat of the       *)
(* source are computed character by character.  A number keeps its sign, the   *)
(* digits of its integer part and two decimals; the input texts carry at    *)
(* most two decimals.                                                       *)
(* Dates are calendar days [y, m, d]; the server clock is taken in UTC.     *)
(***************************************************************************)
EXTENDS Integers, Sequences, FiniteSets, TLC

\* The element of a one-element set.  Only({e(v) : v \in {d}}) is e with v
\* naming the value of d: a const or let binding of the source, computed once.
Only(S) == CHOOSE x \in S : TRUE

(***************************************************************************)
(* Characters and strings                                                   *)
(***************************************************************************)
Digits == {"0", "1", "2", "3", "4", "5", "6", "7", "8", "9"}

LowerLetters ==
  {"a", "b", "c", "d", "e", "f", "g", "h", "i", "j", "k", "l", "m",
   "n", "o", "p", "q", "r", "s", "t", "u", "v", "w", "x", "y", "z"}

UpperLetters ==
  {"A", "B", "C", "D", "E", "F", "G", "H", "I", "J", "K", "L", "M",
   "N", "O", "P", "Q", "R", "S", "T", "U", "V", "W", "X", "Y", "Z"}

\* String.prototype.toLowerCase on one character
ToLowerChar(c) ==
  CASE c = "A" -> "a" [] c = "B" -> "b" [] c = "C" -> "c" [] c = "D" -> "d"
    [] c = "E" -> "e" [] c = "F" -> "f" [] c = "G" -> "g" [] c = "H" -> "h"
    [] c = "I" -> "i" [] c = "J" -> "j" [] c = "K" -> "k" [] c = "L" -> "l"
    [] c = "M" -> "m" [] c = "N" -> "n" [] c = "O" -> "o" [] c = "P" -> "p"
    [] c = "Q" -> "q" [] c = "R" -> "r" [] c = "S" -> "s" [] c = "T" -> "t"
    [] c = "U" -> "u" [] c = "V" -> "v" [] c = "W" -> "w" [] c = "X" -> "x"
    [] c = "Y" -> "y" [] c = "Z" -> "z" [] OTHER -> c

ToLowerCase(s) == [i \in 1..Len(s) |-> ToLowerChar(s[i])]

DigitVal(c) ==
  CASE c = "0" -> 0 [] c = "1" -> 1 [] c = "2" -> 2 [] c = "3" -> 3
    [] c = "4" -> 4 [] c = "5" -> 5 [] c = "6" -> 6 [] c = "7" -> 7
    [] c = "8" -> 8 [] c = "9" -> 9 [] OTHER -> 0

IsDigit(c) == c \in Digits

\* \w of the regular expressions
IsWordChar(c) == c \in Digits \cup LowerLetters \cup UpperLetters \cup {"_"}

\* white space removed by String.prototype.trim and skipped by parseFloat
IsSpace(c) == c \in {" ", "\t", "\r", "\n"}

\* s.slice(i - 1): the suffix of s that starts at position i (1-based)
Drop(s, i) == IF i > Len(s) THEN <<>> ELSE SubSeq(s, i, Len(s))

\* the prefix of s of length n
Take(s, n) == IF n <= 0 THEN <<>> ELSE SubSeq(s, 1, IF n > Len(s) THEN Len(s) ELSE n)

\* the sub is found in s at position i
MatchAt(s, sub, i) ==
  /\ i >= 1
  /\ i + Len(sub) - 1 <= Len(s)
  /\ \A k \in 1..Len(sub) : s[i + k - 1] = sub[k]

\* String.prototype.includes
Includes(s, sub) == \E i \in 1..(Len(s) + 1) : MatchAt(s, sub, i)

\* String.prototype.trim
Trim(s) ==
  LET keep == {i \in 1..Len(s) : ~IsSpace(s[i])}
  IN IF keep = {} THEN <<>>
     ELSE LET lo == CHOOSE i \in keep : \A j \in keep : i <= j
              hi == CHOOSE i \in keep : \A j \in keep : i >= j
          IN SubSeq(s, lo, hi)

\* String.prototype.split on a one-character separator
RECURSIVE Split(_, _)
Split(s, sep) ==
  LET hits == {i \in 1..Len(s) : s[i] = sep}
  IN IF hits = {} THEN <<s>>
     ELSE LET p == CHOOSE i \in hits : \A j \in hits : i <= j
          IN <<Take(s, p - 1)>> \o Split(Drop(s, p + 1), sep)

\* Array.prototype.join on a one-character separator
RECURSIVE Join(_, _)
Join(parts, sep) ==
  IF Len(parts) = 0 THEN <<>>
  ELSE IF Len(parts) = 1 THEN parts[1]
  ELSE parts[1] \o <<sep>> \o Join(Tail(parts), sep)

\* the decimal value of a run of digits
RECURSIVE DigitsValue(_)
DigitsValue(s) ==
  IF s = <<>> THEN 0 ELSE 10 * DigitsValue(SubSeq(s, 1, Len(s) - 1)) + DigitVal(s[Len(s)])

\* length of the longest run of digits of s that starts at position i
RECURSIVE DigitRun(_, _)
DigitRun(s, i) ==
  IF i <= Len(s) /\ IsDigit(s[i]) THEN 1 + DigitRun(s, i + 1) ELSE 0

\* \b at the gap in front of position i (between i-1 and i)
WordBoundary(s, i) ==
  LET before == i - 1 >= 1 /\ i - 1 <= Len(s) /\ IsWordChar(s[i - 1])
      after == i >= 1 /\ i <= Len(s) /\ IsWordChar(s[i])
  IN before # after

(***************************************************************************)
(* Numbers: a JavaScript number is NaN or a signed decimal with two         *)
(* decimals, kept as its digits so that no magnitude overflows              *)
(***************************************************************************)
NaN == [nan |-> TRUE, neg |-> FALSE, int |-> <<>>, frac |-> <<"0", "0">>]

\* the number with the given sign, integer digits (no leading zero) and
\* two decimals
Num(neg, int, frac) == [nan |-> FALSE, neg |-> neg, int |-> int, frac |-> frac]

Zero == Num(FALSE, <<>>, <<"0", "0">>)

\* isNaN
IsNaN(a) == a.nan

\* x === 0 (true of 0 and of -0)
IsZero(a) == ~a.nan /\ a.int = <<>> /\ a.frac = <<"0", "0">>

\* x > 0 (false for NaN)
IsPositive(a) == ~a.nan /\ ~a.neg /\ ~IsZero(a)

\* x < 0 (false for NaN)
IsNegative(a) == ~a.nan /\ a.neg /\ ~IsZero(a)

\* x || 0
OrZero(a) == IF a.nan \/ IsZero(a) THEN Zero ELSE a

\* Math.abs
MathAbs(a) == IF a.nan THEN NaN ELSE [a EXCEPT !.neg = FALSE]

\* unary minus
Negate(a) == IF a.nan THEN NaN ELSE [a EXCEPT !.neg = ~@]

\* the digits of an integer part without its leading zeros
RECURSIVE StripZeros(_)
StripZeros(ds) ==
  IF ds # <<>> /\ ds[1] = "0" THEN StripZeros(Tail(ds)) ELSE ds

\* the first two decimals of a fraction
TwoDecimals(frac) ==
  IF Len(frac) = 0 THEN <<"0", "0">>
  ELSE IF Len(frac) = 1 THEN <<frac[1], "0">>
  ELSE <<frac[1], frac[2]>>

\* the position of the first character that is not white space
FirstNonSpace(str) ==
  LET nonspace == {i \in 1..Len(str) : ~IsSpace(str[i])}
  IN IF nonspace = {} THEN Len(str) + 1
     ELSE CHOOSE i \in nonspace : \A j \in nonspace : i <= j

\* length of the digits that follow a decimal point at position q
FractionRun(str, q) ==
  IF q <= Len(str) /\ str[q] = "." THEN DigitRun(str, q + 1) ELSE 0

\* the number whose il integer digits start at position p, followed by a
\* point and fl decimals; NaN when it has no digit
FloatAt(str, neg, p, il, fl) ==
  IF il + fl = 0 THEN NaN
  ELSE Num(neg, StripZeros(SubSeq(str, p, p + il - 1)),
           TwoDecimals(SubSeq(str, p + il + 1, p + il + fl)))

\* the number that starts with an optional sign at position start
FloatFrom(str, start) ==
  LET signed == start <= Len(str) /\ str[start] \in {"-", "+"}
  IN Only({Only({FloatAt(str, signed /\ str[start] = "-", p, il, fl) :
                   fl \in {FractionRun(str, p + il)}}) :
             p \in {IF signed THEN start + 1 ELSE start},
             il \in {DigitRun(str, IF signed THEN start + 1 ELSE start)}})

\* Number.parseFloat: leading white space, an optional sign, then the
\* longest prefix digits[.digits] or .digits; NaN when it has no digit
ParseFloat(str) ==
  Only({FloatFrom(s, start) : s \in {str}, start \in {FirstNonSpace(str)}})

\* /[^\d.-]/g : the characters the amount cleaning keeps
IsAmountChar(c) == IsDigit(c) \/ c \in {".", "-"}

\* str.replace(/[^\d.-]/g, "")
CleanAmount(str) == SelectSeq(str, IsAmountChar)

(***************************************************************************)
(* Dates                                                                    *)
(***************************************************************************)
InvalidDate == [valid |-> FALSE, y |-> 0, m |-> 0, d |-> 0]

MkDate(y, m, d) == [valid |-> TRUE, y |-> y, m |-> m, d |-> d]

IsLeap(y) == (y % 4 = 0 /\ y % 100 # 0) \/ y % 400 = 0

DaysInMonth(y, m) ==
  IF m = 2 THEN (IF IsLeap(y) THEN 29 ELSE 28)
  ELSE IF m \in {4, 6, 9, 11} THEN 30 ELSE 31

\* MakeDay: a day number past the end of the month runs into the next month
MakeDay(y, m, d) ==
  IF d <= DaysInMonth(y, m) THEN MkDate(y, m, d)
  ELSE IF m = 12 THEN MkDate(y + 1, 1, d - DaysInMonth(y, m))
  ELSE MkDate(y, m + 1, d - DaysInMonth(y, m))

\* new Date(year, monthIndex, day): the month index counts from 0 and
\* runs over into the years before and after
JsDate(year, monthIndex, day) ==
  MakeDay(year + (monthIndex \div 12), (monthIndex % 12) + 1, day)

\* a < b for two valid dates
DateBefore(a, b) ==
  \/ a.y < b.y
  \/ a.y = b.y /\ a.m < b.m
  \/ a.y = b.y /\ a.m = b.m /\ a.d < b.d

AllDigits(s) == \A i \in 1..Len(s) : IsDigit(s[i])

\* the date of the ISO form YYYY-MM-DD
IsoDate(text) ==
  LET y == DigitsValue(SubSeq(text, 1, 4))
      m == DigitsValue(SubSeq(text, 6, 7))
      d == DigitsValue(SubSeq(text, 9, 10))
  IN IF m \in 1..12 /\ d \in 1..31 THEN MakeDay(y, m, d) ELSE InvalidDate

IsIsoForm(text) ==
  /\ Len(text) = 10 /\ text[5] = "-" /\ text[8] = "-"
  /\ AllDigits(SubSeq(text, 1, 4)) /\ AllDigits(SubSeq(text, 6, 7))
  /\ AllDigits(SubSeq(text, 9, 10))

IsLetter(c) == c \in LowerLetters \cup UpperLetters

\* length of the run of letters that starts at position i
RECURSIVE LetterRun(_, _)
LetterRun(s, i) ==
  IF i <= Len(s) /\ IsLetter(s[i]) THEN 1 + LetterRun(s, i + 1) ELSE 0

\* the largest year of a valid time value
MaxYear == 275760

\* the value of a number token; no date has a component above MaxYear, so
\* a longer number counts as MaxYear + 1
ComponentValue(ds) ==
  IF Len(StripZeros(ds)) > 6 THEN MaxYear + 1
  ELSE IF DigitsValue(ds) > MaxYear THEN MaxYear + 1 ELSE DigitsValue(ds)

MonthNames ==
  << <<"j", "a", "n">>, <<"f", "e", "b">>, <<"m", "a", "r">>, <<"a", "p", "r">>,
     <<"m", "a", "y">>, <<"j", "u", "n">>, <<"j", "u", "l">>, <<"a", "u", "g">>,
     <<"s", "e", "p">>, <<"o", "c", "t">>, <<"n", "o", "v">>, <<"d", "e", "c">> >>

\* the month a word names by its first three letters, 0 when it names none
MonthOfWord(word) ==
  LET named == {m \in 1..12 : MonthNames[m] = ToLowerCase(Take(word, 3))}
  IN IF named = {} THEN 0 ELSE CHOOSE m \in named : TRUE

ZoneWords ==
  { <<"u", "t">>, <<"u", "t", "c">>, <<"z">>, <<"g", "m", "t">>,
    <<"c", "d", "t">>, <<"c", "s", "t">>, <<"e", "d", "t">>, <<"e", "s", "t">>,
    <<"m", "d", "t">>, <<"m", "s", "t">>, <<"p", "d", "t">>, <<"p", "s", "t">> }

LegacyFailed == [ok |-> FALSE, comps |-> <<>>, month |-> 0]

\* position j, or the position after a "-" that stands at j
SkipDash(text, j) == IF j <= Len(text) /\ text[j] = "-" THEN j + 1 ELSE j

\* The legacy date parser of the runtime, on texts without a time of day
\* (no colon) and without parentheses: a number is the next of at most
\* three day components; a month name sets the month; a time-zone word
\* after a number is accepted (it moves no calendar day back); any other
\* word is ignored in front of the first number unless a digit follows it
\* at once, and ends the parse when a number has been read; a sign after
\* a number that no number precedes directly ends the parse; every other
\* character is ignored.
RECURSIVE LegacyScan(_, _, _, _)
LegacyScan(text, i, comps, month) ==
  IF i > Len(text) THEN [ok |-> TRUE, comps |-> comps, month |-> month]
  ELSE IF IsDigit(text[i])
  THEN IF Len(comps) = 3 THEN LegacyFailed
       ELSE LegacyScan(text, SkipDash(text, i + DigitRun(text, i)),
                       Append(comps, ComponentValue(SubSeq(text, i, i + DigitRun(text, i) - 1))),
                       month)
  ELSE IF IsLetter(text[i])
  THEN LET j == i + LetterRun(text, i)
           word == SubSeq(text, i, j - 1)
       IN IF MonthOfWord(word) # 0
          THEN LegacyScan(text, SkipDash(text, j), comps, MonthOfWord(word))
          ELSE IF ToLowerCase(word) \in ZoneWords /\ comps # <<>>
          THEN LegacyScan(text, j, comps, month)
          ELSE IF comps # <<>> \/ (j <= Len(text) /\ IsDigit(text[j]))
          THEN LegacyFailed
          ELSE LegacyScan(text, j, comps, month)
  ELSE IF text[i] \in {"-", "+", ")"} /\ comps # <<>> THEN LegacyFailed
  ELSE LegacyScan(text, i + 1, comps, month)

\* the year of the legacy date parser: 0..49 is 20YY, 50..99 is 19YY
LegacyYear(n) ==
  IF n \in 0..49 THEN 2000 + n ELSE IF n \in 50..99 THEN 1900 + n ELSE n

\* year, month and day checked and made a date
LegacyDay(year, month, day) ==
  IF LegacyYear(year) <= MaxYear /\ month \in 1..12 /\ day \in 1..31
  THEN MakeDay(LegacyYear(year), month, day)
  ELSE InvalidDate

\* the date of the scanned components; a missing component is 1.  Without
\* a month name the order is year month day when the first component is
\* no day of a month, else month day year; with a month name the two
\* numbers are year day or day year by the same test.
LegacyDate(scan) ==
  IF ~scan.ok \/ scan.comps = <<>> THEN InvalidDate
  ELSE LET c == [k \in 1..3 |-> IF k <= Len(scan.comps) THEN scan.comps[k] ELSE 1]
       IN IF scan.month = 0
          THEN (IF c[1] \notin 1..31 THEN LegacyDay(c[1], c[2], c[3])
                ELSE LegacyDay(c[3], c[1], c[2]))
          ELSE (IF c[1] \notin 1..31 THEN LegacyDay(c[1], scan.month, c[2])
                ELSE LegacyDay(c[2], scan.month, c[1]))

\* new Date(text) in the Node.js runtime: the ISO form YYYY-MM-DD, else
\* the legacy date parser; an invalid date when neither reads the text
NewDate(text) ==
  Only({IF IsIsoForm(t) THEN IsoDate(t)
        ELSE Only({LegacyDate(scan) : scan \in {LegacyScan(t, 1, <<>>, 0)}}) :
          t \in {text}})

NoMatch == [found |-> FALSE, day |-> <<>>, month |-> <<>>, year |-> <<>>]

IsDateSep(c) == c \in {"/", "-"}

\* /(\d{2})[/-](\d{2})/ matches at position i
DayMonthAt(s, i) ==
  /\ i >= 1 /\ i + 4 <= Len(s)
  /\ IsDigit(s[i]) /\ IsDigit(s[i + 1]) /\ IsDateSep(s[i + 2])
  /\ IsDigit(s[i + 3]) /\ IsDigit(s[i + 4])

\* /(\d{2})[/-](\d{2})[/-](\d{2,4})/ matches at position i
DayMonthYearAt(s, i) ==
  /\ DayMonthAt(s, i)
  /\ i + 5 <= Len(s) /\ IsDateSep(s[i + 5])
  /\ DigitRun(s, i + 6) >= 2

\* str.match(/(\d{2})[/-](\d{2})[/-](\d{2,4})/): the leftmost match
MatchDayMonthYear(s) ==
  LET hits == {i \in 1..Len(s) : DayMonthYearAt(s, i)}
  IN IF hits = {} THEN NoMatch
     ELSE LET i == CHOOSE h \in hits : \A j \in hits : h <= j
              run == DigitRun(s, i + 6)
              yl == IF run > 4 THEN 4 ELSE run
          IN [found |-> TRUE, day |-> SubSeq(s, i, i + 1),
              month |-> SubSeq(s, i + 3, i + 4),
              year |-> SubSeq(s, i + 6, i + 5 + yl)]

\* str.match(/(\d{2})[/-](\d{2})/): the leftmost match, no year group
MatchDayMonth(s) ==
  LET hits == {i \in 1..Len(s) : DayMonthAt(s, i)}
  IN IF hits = {} THEN NoMatch
     ELSE LET i == CHOOSE h \in hits : \A j \in hits : h <= j
          IN [found |-> TRUE, day |-> SubSeq(s, i, i + 1),
              month |-> SubSeq(s, i + 3, i + 4), year |-> <<>>]

\* the two attempts of the source: with a year first, then day and month only
MatchDate(s) ==
  Only({IF withYear.found THEN withYear ELSE MatchDayMonth(line) :
          line \in {s}, withYear \in {MatchDayMonthYear(s)}})

\* Number.prototype.toString of a year, four digits
YearText(y) ==
  LET ch(n) == CHOOSE c \in Digits : DigitVal(c) = n
  IN <<ch((y \div 1000) % 10), ch((y \div 100) % 10), ch((y \div 10) % 10), ch(y % 10)>>

(***************************************************************************)
(* Regular expressions on amounts and account numbers                       *)
(***************************************************************************)
IsAmountRunChar(c) == IsDigit(c) \/ c = ","

\* length of the longest run of [\d,] that starts at position i
RECURSIVE AmountRun(_, _)
AmountRun(s, i) ==
  IF i <= Len(s) /\ IsAmountRunChar(s[i]) THEN 1 + AmountRun(s, i + 1) ELSE 0

\* /[\d,]+\.\d{2}/ matches at position i
AmountAt(s, i) ==
  LET r == AmountRun(s, i)
  IN /\ r >= 1
     /\ i + r + 2 <= Len(s)
     /\ s[i + r] = "."
     /\ IsDigit(s[i + r + 1]) /\ IsDigit(s[i + r + 2])

\* str.match(/[\d,]+\.\d{2}/): the leftmost match, or no match
MatchAmount(s) ==
  LET hits == {i \in 1..Len(s) : AmountAt(s, i)}
  IN IF hits = {} THEN [found |-> FALSE, text |-> <<>>]
     ELSE LET i == CHOOSE h \in hits : \A j \in hits : h <= j
          IN [found |-> TRUE, text |-> SubSeq(s, i, i + AmountRun(s, i) + 2)]

IsNotComma(c) == c # ","

\* str.replace(/,/g, "")
RemoveCommas(s) == SelectSeq(s, IsNotComma)

\* accountPattern /\b\d{8,}\b/ : the line holds a run of 8 or more digits
\* that stands between two word boundaries
HasLongDigitRun(s) ==
  \E i \in 1..Len(s) :
    /\ WordBoundary(s, i)
    /\ DigitRun(s, i) >= 8
    /\ WordBoundary(s, i + DigitRun(s, i))

\* /^\d{8,}$/.test
IsLongDigits(s) == Len(s) >= 8 /\ AllDigits(s)

\* row.match(/\b\d{12}\b/) of the assisted extraction: the leftmost run of
\* exactly 12 digits between word boundaries
Match12Digits(s) ==
  LET hits == {i \in 1..Len(s) :
                 /\ WordBoundary(s, i)
                 /\ DigitRun(s, i) = 12
                 /\ WordBoundary(s, i + 12)}
  IN IF hits = {} THEN [found |-> FALSE, text |-> <<>>]
     ELSE LET i == CHOOSE h \in hits : \A j \in hits : h <= j
          IN [found |-> TRUE, text |-> SubSeq(s, i, i + 11)]

(***************************************************************************)
(* Records of the delimited parser                                          *)
(***************************************************************************)
\* the value of a missing key; never equal to a text
Undefined == <<"undefined">>

\* a categoryId, or expandedCategory, of null
NullCategory == <<"null">>

\* JavaScript truthiness of a field value
Truthy(v) == v # Undefined /\ v # <<>>

\* record[name]; a record is the sequence of its <<key, value>> pairs in
\* insertion order
Get(record, name) ==
  LET at == {i \in 1..Len(record) : record[i][1] = name}
  IN IF at = {} THEN Undefined
     ELSE record[CHOOSE i \in at : \A j \in at : i <= j][2]

\* the largest integer index of an object, 2^32 - 2
MaxIndexText == <<"4", "2", "9", "4", "9", "6", "7", "2", "9", "4">>

\* order of two decimal texts without leading zeros
DigitsBefore(a, b) ==
  \/ Len(a) < Len(b)
  \/ /\ Len(a) = Len(b)
     /\ \E i \in 1..Len(a) :
          /\ \A j \in 1..(i - 1) : a[j] = b[j]
          /\ DigitVal(a[i]) < DigitVal(b[i])

\* a property name that is an integer index: the canonical decimal text
\* of a number of 0..2^32 - 2
IsArrayIndex(key) ==
  /\ Len(key) >= 1
  /\ \A i \in 1..Len(key) : IsDigit(key[i])
  /\ key[1] # "0" \/ Len(key) = 1
  /\ key = MaxIndexText \/ DigitsBefore(key, MaxIndexText)

\* the place in a non-empty record of its first own property: Object.keys
\* and Object.values list the integer indexes in ascending order before the
\* other names in insertion order
FirstOwn(record) ==
  LET indexes == {i \in 1..Len(record) : IsArrayIndex(record[i][1])}
  IN IF indexes = {} THEN 1
     ELSE CHOOSE i \in indexes :
            \A j \in indexes : ~DigitsBefore(record[j][1], record[i][1])

\* Object.keys(record)[0] || ""
FirstKey(record) == IF Len(record) = 0 THEN <<>> ELSE record[FirstOwn(record)][1]

\* Object.values(record)[0]
FirstValue(record) == IF Len(record) = 0 THEN Undefined ELSE record[FirstOwn(record)][2]

RECURSIVE findFieldFrom(_, _, _)
findFieldFrom(record, possibleNames, k) ==
  IF k > Len(possibleNames) THEN FirstKey(record)
  ELSE IF Get(record, possibleNames[k]) # Undefined THEN possibleNames[k]
  ELSE findFieldFrom(record, possibleNames, k + 1)

\* the first listed name that is a key, else the first key, else ""
findField(record, possibleNames) == findFieldFrom(record, possibleNames, 1)

\* the fields of one line, trimmed when the trim option is set
LineFields(line, trim) ==
  LET raw == Split(line, ",")
  IN [i \in 1..Len(raw) |-> IF trim THEN Trim(raw[i]) ELSE raw[i]]

\* one record: the columns of the header paired with the fields of the
\* line (relax_column_count: missing fields give no key, extra fields are
\* dropped)
MakeRecord(header, fields) ==
  LET n == IF Len(fields) < Len(header) THEN Len(fields) ELSE Len(header)
  IN [i \in 1..n |-> <<header[i], fields[i]>>]

IsNonEmpty(line) == line # <<>>

\* the records of the lines: the first line names the columns
RecordsOfLines(lines, trim) ==
  IF Len(lines) = 0 THEN <<>>
  ELSE Only({[i \in 1..(Len(lines) - 1) |->
                MakeRecord(header, LineFields(lines[i + 1], trim))] :
               header \in {LineFields(lines[1], trim)}})

\* parse(text, {columns: true, skip_empty_lines: true, relax_column_count:
\* true, trim, to_line}) on text without quotes: the first non-empty line
\* names the columns, every later non-empty line is one record
ParseCSV(text, trim, toLine) ==
  Only({RecordsOfLines(lines, trim) :
          lines \in {SelectSeq(IF toLine > 0 THEN Take(Split(text, "\n"), toLine)
                               ELSE Split(text, "\n"), IsNonEmpty)}})

(***************************************************************************)
(* Column names and literals of parseStatement                              *)
(***************************************************************************)
\* the account column names
accountFields ==
  <<<<"A", "c", "c", "o", "u", "n", "t", " ", "N", "o">>,
    <<"A", "c", "c", "o", "u", "n", "t", " ", "N", "u", "m", "b", "e", "r">>,
    <<"A", "c", "c", "o", "u", "n", "t", "N", "u", "m", "b", "e", "r">>,
    <<"A", "c", "c", "o", "u", "n", "t">>,
    <<"a", "c", "c", "_", "n", "o">>,
    <<"a", "c", "c", "o", "u", "n", "t", "_", "n", "o">>>>

\* the date column names
dateFields ==
  <<<<"d", "a", "t", "e">>,
    <<"t", "r", "a", "n", "s", "a", "c", "t", "i", "o", "n", "_", "d", "a", "t", "e">>,
    <<"t", "r", "a", "n", "s", "_", "d", "a", "t", "e">>,
    <<"D", "a", "t", "e">>,
    <<"T", "r", "a", "n", "s", " ", "D", "a", "t", "e">>>>

\* the description column names
descriptionFields ==
  <<<<"d", "e", "s", "c", "r", "i", "p", "t", "i", "o", "n">>,
    <<"d", "e", "s", "c">>,
    <<"n", "a", "r", "r", "a", "t", "i", "v", "e">>,
    <<"d", "e", "t", "a", "i", "l", "s">>,
    <<"D", "e", "s", "c", "r", "i", "p", "t", "i", "o", "n">>,
    <<"M", "e", "r", "c", "h", "a", "n", "t">>>>

\* the amount column names
amountFields ==
  <<<<"a", "m", "o", "u", "n", "t">>,
    <<"v", "a", "l", "u", "e">>,
    <<"A", "m", "o", "u", "n", "t">>,
    <<"T", "r", "a", "n", "s", "a", "c", "t", "i", "o", "n", " ", "A", "m", "o", "u", "n", "t">>,
    <<"A", "m", "o", "u", "n", "t", " ", "(", "U", "S", "D", ")">>,
    <<"D", "e", "p", "o", "s", "i", "t", "s">>,
    <<"W", "i", "t", "h", "d", "r", "a", "w", "a", "l", "s">>>>

\* the type column names
typeFields ==
  <<<<"t", "y", "p", "e">>,
    <<"t", "r", "a", "n", "s", "a", "c", "t", "i", "o", "n", "_", "t", "y", "p", "e">>,
    <<"d", "c">>,
    <<"T", "y", "p", "e">>,
    <<"T", "r", "a", "n", "s", "a", "c", "t", "i", "o", "n", " ", "T", "y", "p", "e">>>>

\* record["Deposits"]
Deposits == <<"D", "e", "p", "o", "s", "i", "t", "s">>

\* record["Withdrawals"]
Withdrawals == <<"W", "i", "t", "h", "d", "r", "a", "w", "a", "l", "s">>

\* the default description
UnknownTransaction == <<"U", "n", "k", "n", "o", "w", "n", " ", "t", "r", "a", "n", "s", "a", "c", "t", "i", "o", "n">>

\* the account sentinel
UnknownAccount == <<"u", "n", "k", "n", "o", "w", "n", "-", "a", "c", "c", "o", "u", "n", "t">>

\* keyword
KwCredit == <<"c", "r", "e", "d", "i", "t">>

\* keyword
KwC == <<"c">>

\* keyword
KwCr == <<"c", "r">>

\* keyword
KwPayment == <<"p", "a", "y", "m", "e", "n", "t">>

\* keyword
KwRefund == <<"r", "e", "f", "u", "n", "d">>

\* keyword
KwDeposit == <<"d", "e", "p", "o", "s", "i", "t">>

(***************************************************************************)
(* State                                                                    *)
(***************************************************************************)
VARIABLES
  now,                  \* new Date(): the current calendar day
  clock,                \* Date.now(): the current millisecond
  file,                 \* formData.get("file"): [present, name, content]
  apiKey,               \* process.env.GEMINI_API_KEY is set
  pc,                   \* where processStatement stands
  fileName,             \* the sanitized filename token
  requests,             \* requests sent to the generation service by this call
  assisted,             \* what parseStatementWithGemini did in this call
  parseCalls,           \* invocations of parseStatement by this call
  parsed,               \* what parseStatement did in this call
  parsedTransactions,   \* the list the strategies produced
  transactionsToInsert, \* the list handed to prisma.transaction.createMany
  db,                   \* the rows of the transaction table
  result,               \* the StatementParseResult returned
  transactions,         \* the module-level array "let transactions" (line 9)
  files,                \* UploadForm: the files selected for one batch upload
  fileIndex,            \* UploadForm.handleSubmit: the index i of its loop, from 1
  toasts,               \* UploadForm.handleSubmit: the results its runs have shown, in order
  uploading,            \* UploadForm: the uploading flag
  error,                \* UploadForm: the error message shown, or null
  success,              \* UploadForm: the success message shown, or null
  errorOfRender,        \* UploadForm.handleSubmit: the error its closure holds
  shownBefore,          \* UploadForm.handleSubmit: the results shown before this run
  probeRecord,          \* findField: its record argument
  probeNames,           \* findField: its possibleNames argument
  probeFound,           \* findField: the value it returned
  cleared,              \* the monthOption of every finished clearTransactionsByMonth
  timeRange,            \* Dashboard: the selected time range
  summary,              \* Dashboard: expensesByCategory of the loaded summary
  summaryPending,       \* Dashboard: getTransactionSummary calls not yet returned
  expandedCategory,     \* Dashboard: the expanded category row, or null
  categoryTransactions, \* Dashboard: the transactions shown under the expanded row
  loadingTransactions,  \* Dashboard: the loading flag of the expanded row
  pending,              \* Dashboard: getTransactionsByCategory calls not yet returned
  listed,               \* TransactionList: the transactions state
  selectedTransactions, \* TransactionList: the set of selected ids
  selectMode,           \* TransactionList: the select mode flag
  accountFilter,        \* TransactionList: the account filter, or "all"
  dialogOpen,           \* TransactionList: the confirmation dialog that is open
  transactionToDelete,  \* TransactionList: the id handed to the delete dialog
  accountToDelete       \* TransactionList: the account handed to its dialog

\* the state of the upload form
form ==
  <<files, fileIndex, toasts, uploading, error, success, errorOfRender, shownBefore>>

\* one call of findField
probe == <<probeRecord, probeNames, probeFound>>

\* the state of the screens other than the upload form
dashboard ==
  <<timeRange, summary, summaryPending, expandedCategory, categoryTransactions,
    loadingTransactions, pending>>

\* the state of the transaction list
listState ==
  <<listed, selectedTransactions, selectMode, accountFilter, dialogOpen,
    transactionToDelete, accountToDelete>>

screens == <<cleared, dashboard, listState>>

vars ==
  <<now, clock, file, apiKey, pc, fileName, requests, assisted, parseCalls,
    parsed, parsedTransactions, transactionsToInsert, db, result,
    transactions, files, fileIndex, toasts, uploading, error, success,
    errorOfRender, shownBefore, probeRecord, probeNames, probeFound,
    cleared, timeRange, summary, summaryPending, expandedCategory,
    categoryTransactions, loadingTransactions, pending, listed,
    selectedTransactions, selectMode, accountFilter, dialogOpen,
    transactionToDelete, accountToDelete>>

(***************************************************************************)
(* parseStatement: the CSV row mapping                                      *)
(***************************************************************************)
\* getAccountNumberFromCSV: the first truthy value of a known account
\* column, or a first column made of 8 or more digits, in the records of
\* the first 5 lines; null (here the empty text) when none or when the
\* delimited parser raises
RECURSIVE AccountOfRecords(_, _)
AccountOfRecords(records, k) ==
  IF k > Len(records) THEN <<>>
  ELSE LET record == records[k]
           named == {i \in 1..Len(accountFields) : Truthy(Get(record, accountFields[i]))}
           firstValue == FirstValue(record)
       IN IF named # {}
          THEN Trim(Get(record, accountFields[CHOOSE i \in named : \A j \in named : i <= j]))
          ELSE IF Truthy(firstValue) /\ IsLongDigits(Trim(firstValue))
          THEN Trim(firstValue)
          ELSE AccountOfRecords(records, k + 1)

getAccountNumberFromCSV(csvContent, parseRaises) ==
  IF parseRaises THEN <<>>
  ELSE Only({AccountOfRecords(records, 1) : records \in {ParseCSV(csvContent, FALSE, 5)}})

\* the date of a CSV row: now when the field is empty; the direct parse;
\* else the DD/MM/YY[YY] or DD/MM pattern rebuilt as year-month-day.  The
\* result can be an invalid date.
RowYear(match) ==
  IF match.year # <<>>
  THEN (IF Len(match.year) = 2 THEN <<"2", "0">> \o match.year ELSE match.year)
  ELSE YearText(now.y)

PatternDate(match) ==
  NewDate(RowYear(match) \o <<"-">> \o match.month \o <<"-">> \o match.day)

RowDate(text) ==
  IF ~Truthy(text) THEN now
  ELSE Only({IF direct.valid THEN direct
             ELSE IF match.found THEN PatternDate(match)
             ELSE direct :
               direct \in {NewDate(text)}, match \in {MatchDate(text)}})

\* the amount read from the amount column: cleaned, parsed, 0 on failure
RowAmount(text) ==
  IF Truthy(text) THEN OrZero(ParseFloat(CleanAmount(text))) ELSE Zero

\* the type column marks a credit
TypeIsCredit(text) ==
  /\ Truthy(text)
  /\ Only({\/ Includes(lower, KwCredit)
           \/ Includes(lower, KwC)
           \/ lower = KwCr : lower \in {ToLowerCase(text)}})

\* the description keywords of the CSV path
DescriptionIsCredit(description) ==
  Only({\/ Includes(lower, KwPayment)
        \/ Includes(lower, KwRefund)
        \/ Includes(lower, KwCredit)
        \/ Includes(lower, KwDeposit) : lower \in {ToLowerCase(description)}})

\* record[name] holds a number above zero
ColumnPositive(record, name) ==
  Only({Truthy(value) /\ IsPositive(ParseFloat(value)) : value \in {Get(record, name)}})

\* isCredit with the type column applied after Deposits and Withdrawals
RowIsCreditTypeLast(record, description) ==
  LET byDeposits == IF ColumnPositive(record, Deposits) THEN TRUE
                    ELSE DescriptionIsCredit(description)
      byWithdrawals == IF ColumnPositive(record, Withdrawals) THEN FALSE ELSE byDeposits
  IN IF TypeIsCredit(Get(record, findField(record, typeFields))) THEN TRUE
     ELSE byWithdrawals

\* isCredit after the sign rules in the order of the source: the type
\* column, the description keywords when not yet a credit, Deposits, and
\* Withdrawals last
RowIsCredit(record, description) ==
  IF ColumnPositive(record, Withdrawals) THEN FALSE
  ELSE IF ColumnPositive(record, Deposits) THEN TRUE
  ELSE Only({IF ~byType THEN DescriptionIsCredit(description) ELSE byType :
               byType \in {TypeIsCredit(Get(record, findField(record, typeFields)))}})

\* amount before the sign is applied: the amount column, overwritten by
\* Deposits, then by Withdrawals
RowMagnitude(record) ==
  IF ColumnPositive(record, Withdrawals) THEN ParseFloat(Get(record, Withdrawals))
  ELSE IF ColumnPositive(record, Deposits) THEN ParseFloat(Get(record, Deposits))
  ELSE RowAmount(Get(record, findField(record, amountFields)))

\* finalAmount without Math.abs: the sign that was read survives
SignedAmountKeepsSign(isCredit, amount) ==
  IF isCredit THEN amount ELSE Negate(amount)

\* finalAmount
SignedAmount(isCredit, amount) ==
  IF isCredit THEN MathAbs(amount) ELSE Negate(MathAbs(amount))

\* finalAccountId
RowAccountId(record, accountIdentifier) ==
  Only({IF Truthy(own) THEN own
        ELSE IF Truthy(FirstValue(record)) THEN FirstValue(record)
        ELSE accountIdentifier :
          own \in {Get(record, findField(record, accountFields))}})

\* record[descriptionField] || "Unknown Transaction"
RowDescription(record) ==
  Only({IF Truthy(raw) THEN raw ELSE UnknownTransaction :
          raw \in {Get(record, findField(record, descriptionFields))}})

\* the transaction object the callback returns
RowTransaction(record, accountIdentifier, date, description, isCredit, amount) ==
  [raised |-> ~date.valid,
   record |-> record,
   isCredit |-> isCredit,
   tx |-> [id |-> "tx-generated",
           date |-> date,
           description |-> description,
           amount |-> SignedAmount(isCredit, amount),
           categoryId |-> NullCategory,
           accountId |-> RowAccountId(record, accountIdentifier),
           statementId |-> clock]]

\* the callback of records.map: the transaction of one record; raised
\* when date.toISOString() is called on an invalid date
MapRecord(record, accountIdentifier) ==
  Only({Only({RowTransaction(record, accountIdentifier, date, description,
                             isCredit, amount) :
                date \in {RowDate(dateText)},
                isCredit \in {RowIsCredit(record, description)}}) :
          dateText \in {Get(record, findField(record, dateFields))},
          description \in {RowDescription(record)},
          amount \in {RowMagnitude(record)}})

\* .filter((tx) => !isNaN(tx.amount) && tx.amount !== 0)
KeepRow(row) == ~IsNaN(row.tx.amount) /\ ~IsZero(row.tx.amount)

(***************************************************************************)
(* parseStatement: the plain-text line scanner                              *)
(***************************************************************************)
\* lines[k] || ""
LineAt(lines, k) == IF k <= Len(lines) THEN lines[k] ELSE <<>>

\* the description keywords of the line scanner
ScanIsCredit(description) ==
  Only({\/ Includes(lower, KwCr)
        \/ Includes(lower, KwCredit)
        \/ Includes(lower, KwPayment)
        \/ Includes(lower, KwRefund)
        \/ Includes(lower, KwDeposit) : lower \in {ToLowerCase(description)}})

\* line i gives a transaction: no long digit run, a date token, and a
\* two-decimal token on line i + 2
ScanHit(lines, i) ==
  /\ ~HasLongDigitRun(lines[i])
  /\ MatchDate(lines[i]).found
  /\ MatchAmount(LineAt(lines, i + 2)).found

\* lines[index + 1]?.trim() || "Unknown Transaction"
ScanDescription(lines, i) ==
  Only({IF trimmed # <<>> THEN trimmed ELSE UnknownTransaction :
          trimmed \in {Trim(LineAt(lines, i + 1))}})

\* the transaction object the scanner pushes
ScanTransaction(i, accountIdentifier, date, description, isCredit, amount) ==
  [raised |-> ~date.valid,
   line |-> i,
   isCredit |-> isCredit,
   tx |-> [id |-> "tx-generated",
           date |-> date,
           description |-> description,
           amount |-> SignedAmount(isCredit, amount),
           categoryId |-> NullCategory,
           accountId |-> accountIdentifier,
           statementId |-> clock]]

\* the transaction pushed for line i; raised when toISOString() is called
\* on an invalid date
ScanLine(lines, i, accountIdentifier) ==
  Only({Only({ScanTransaction(i, accountIdentifier, date, description,
                              isCredit, amount) :
                date \in {PatternDate(match)},
                isCredit \in {ScanIsCredit(description)}}) :
          match \in {MatchDate(lines[i])},
          description \in {ScanDescription(lines, i)},
          amount \in {ParseFloat(RemoveCommas(MatchAmount(LineAt(lines, i + 2)).text))}})

\* lines.forEach: the pushed transactions in line order
RECURSIVE ScanFrom(_, _, _)
ScanFrom(lines, i, accountIdentifier) ==
  IF i > Len(lines) THEN <<>>
  ELSE (IF ScanHit(lines, i) THEN <<ScanLine(lines, i, accountIdentifier)>> ELSE <<>>)
       \o ScanFrom(lines, i + 1, accountIdentifier)

ScanLines(csvContent, accountIdentifier) ==
  Only({ScanFrom(lines, 1, accountIdentifier) : lines \in {Split(csvContent, "\n")}})

(***************************************************************************)
(* parseStatement                                                           *)
(***************************************************************************)
AnyRaised(rows) == \E i \in 1..Len(rows) : rows[i].raised

TxsOf(rows) == [i \in 1..Len(rows) |-> rows[i].tx]

\* accountFromCSV || fileName || "unknown-account"
AccountIdentifier(csvContent, name, accountRaises) ==
  Only({IF accountFromCSV # <<>> THEN accountFromCSV
        ELSE IF name # <<>> THEN name ELSE UnknownAccount :
          accountFromCSV \in {getAccountNumberFromCSV(csvContent, accountRaises)}})

\* records.map(...) of the CSV path
MapRecords(csvContent, accountIdentifier) ==
  Only({[i \in 1..Len(records) |-> MapRecord(records[i], accountIdentifier)] :
          records \in {ParseCSV(csvContent, TRUE, 0)}})

\* What the catch (csvError) block returns: the scanner's transactions.
\* An exception of the scanner leaves the block.
ScanResult(csvContent, accountIdentifier) ==
  Only({IF AnyRaised(rows)
        THEN [raised |-> TRUE, path |-> "text", rows |-> <<>>, txs |-> <<>>]
        ELSE [raised |-> FALSE, path |-> "text", rows |-> rows, txs |-> TxsOf(rows)] :
          rows \in {ScanLines(csvContent, accountIdentifier)}})

\* parseStatement without its outer catch: the exception leaves the call
OuterCatchMissing(r) == r

\* the outer catch (error): return []
OuterCatch(r) ==
  Only({IF tried.raised
        THEN [raised |-> FALSE, path |-> "caught", rows |-> <<>>, txs |-> <<>>]
        ELSE tried : tried \in {r}})

\* what the try block of the CSV path returns: the filtered transactions
CsvResult(kept) ==
  [raised |-> FALSE, path |-> "csv", rows |-> kept, txs |-> TxsOf(kept)]

\* the try block of the CSV path and its catch (csvError): the mapped and
\* filtered records, or the scanner when the delimited parser or the
\* mapping of a record raises
CsvOrScan(csvContent, accountIdentifier, csvRaises) ==
  Only({IF ~csvRaises /\ ~AnyRaised(mapped)
        THEN Only({CsvResult(kept) : kept \in {SelectSeq(mapped, KeepRow)}})
        ELSE ScanResult(csvContent, accountIdentifier) :
          mapped \in {MapRecords(csvContent, accountIdentifier)}})

\* the body of parseStatement under its outer try
StatementBody(csvContent, name, accountRaises, csvRaises) ==
  IF csvContent = <<>>
  THEN [raised |-> FALSE, path |-> "invalid", rows |-> <<>>, txs |-> <<>>]
  ELSE OuterCatch(Only({CsvOrScan(csvContent, accountIdentifier, csvRaises) :
                          accountIdentifier \in
                            {AccountIdentifier(csvContent, name, accountRaises)}}))

\* parseStatement(csvContent, fileName).  accountRaises and csvRaises say
\* whether the delimited parser raises in getAccountNumberFromCSV and in
\* the main parse.  In the result, raised says that the call threw, path
\* names the block whose return ended the call, rows keeps the
\* intermediate values of the returned transactions, faults the two flags.
parseStatement(csvContent, name, accountRaises, csvRaises) ==
  Only({[raised |-> r.raised, path |-> r.path, rows |-> r.rows, txs |-> r.txs,
         faults |-> <<accountRaises, csvRaises>>] :
          r \in {StatementBody(csvContent, name, accountRaises, csvRaises)}})

(***************************************************************************)
(* parseStatementWithGemini                                                 *)
(***************************************************************************)
\* Array.from(accountNumbers)[0]: the 12-digit run of the first row that
\* has one, else undefined
RECURSIVE FirstAccountNumber(_, _)
FirstAccountNumber(rows, k) ==
  IF k > Len(rows) THEN Undefined
  ELSE IF Match12Digits(rows[k]).found THEN Match12Digits(rows[k]).text
  ELSE FirstAccountNumber(rows, k + 1)

\* the date of an item: new Date(item.date), now when it is invalid
ItemDate(item) ==
  IF item.date = Undefined THEN now
  ELSE Only({IF date.valid THEN date ELSE now : date \in {NewDate(item.date)}})

\* the amount of an item: a number as it is, a string cleaned and parsed
\* (0 on failure), anything else 0
ItemAmount(item) ==
  IF item.amountType = "number" THEN item.amount
  ELSE IF item.amountType = "string" THEN OrZero(ParseFloat(CleanAmount(item.amountText)))
  ELSE Zero

\* (item.accountNumber || Array.from(accountNumbers)[0] || "unknown-account")
\*   .toString().trim()
ItemAccountId(item, hint) ==
  Trim(IF Truthy(item.accountNumber) THEN item.accountNumber
       ELSE IF Truthy(hint) THEN hint ELSE UnknownAccount)

\* the callback of extractedData.map: raised when the item is not an
\* object (null), whose property reads throw a TypeError
MapItem(item, hint) ==
  [raised |-> ~item.isObject,
   tx |-> [id |-> "none",
           date |-> ItemDate(item),
           description |-> IF Truthy(item.description) THEN item.description
                           ELSE UnknownTransaction,
           amount |-> ItemAmount(item),
           categoryId |-> NullCategory,
           accountId |-> ItemAccountId(item, hint),
           statementId |-> -1]]

\* a filter that drops the zero amounts as the CSV path does
KeepItemNonZero(row) == ~IsNaN(row.tx.amount) /\ ~IsZero(row.tx.amount)

\* .filter((tx) => !isNaN(tx.amount))
KeepItem(row) == ~IsNaN(row.tx.amount)

\* the callback applied to every item
ItemRows(items, hint) == [i \in 1..Len(items) |-> MapItem(items[i], hint)]

\* a row whose callback returned and whose amount is a number
IsMapped(row) == ~row.raised /\ KeepItem(row)

\* a map that skips the items whose callback throws and keeps the others
MapItemsSkipFailed(items, hint) ==
  [raised |-> FALSE, txs |-> TxsOf(SelectSeq(ItemRows(items, hint), IsMapped))]

\* extractedData.map(...).filter(...); an exception in the callback ends
\* the whole map
MapItems(items, hint) ==
  Only({IF AnyRaised(rows) THEN [raised |-> TRUE, txs |-> <<>>]
        ELSE [raised |-> FALSE, txs |-> TxsOf(SelectSeq(rows, KeepItem))] :
          rows \in {ItemRows(items, hint)}})

\* catch (error) { return [] } around the whole function
GeminiCatch(r) ==
  Only({IF tried.raised THEN [raised |-> FALSE, txs |-> <<>>] ELSE tried :
          tried \in {r}})

\* the body of parseStatementWithGemini under its try
GeminiBody(content, response) ==
  IF response.kind \in {"network", "http", "envelope", "nonarray"}
  THEN [raised |-> TRUE, txs |-> <<>>]
  ELSE Only({MapItems(response.items, hint) :
               hint \in {FirstAccountNumber(Split(content, "\n"), 1)}})

\* parseStatementWithGemini(content, fileName) for one answer of the
\* service.  response.kind is
\*   "network"  fetch rejects                     -> throw
\*   "http"     response.ok is false              -> throw
\*   "envelope" no candidates[0]...text           -> throw
\*   "nojson"   JSON.parse of the text throws     -> return []
\*   "nonarray" the JSON value has no map method  -> TypeError
\*   "array"    the JSON value is response.items
\* In the result, raised says that the call threw.
parseStatementWithGemini(content, name, response) ==
  Only({[raised |-> r.raised, txs |-> r.txs, response |-> response] :
          r \in {IF response.kind = "nojson"
                 THEN [raised |-> FALSE, txs |-> <<>>]
                 ELSE GeminiCatch(GeminiBody(content, response))}})

(***************************************************************************)
(* processStatement                                                         *)
(***************************************************************************)
IsFileNameChar(c) == c \in LowerLetters \cup Digits \cup {"-"}

\* name.replace(/\.[^/.]+$/, ""): the text in front of the last dot, when
\* at least one character follows that dot and none of them is a slash
StripExtension(name) ==
  LET dots == {i \in 1..Len(name) : name[i] = "."}
  IN IF dots = {} THEN name
     ELSE LET p == CHOOSE i \in dots : \A j \in dots : i >= j
          IN IF p < Len(name) /\ \A k \in (p + 1)..Len(name) : name[k] # "/"
             THEN Take(name, p - 1) ELSE name

\* file.name.toLowerCase().replace(/\.[^/.]+$/, "").replace(/[^a-z0-9-]/g, "-")
SanitizeFileName(name) ==
  Only({[i \in 1..Len(base) |-> IF IsFileNameChar(base[i]) THEN base[i] ELSE "-"] :
          base \in {Only({StripExtension(lower) : lower \in {ToLowerCase(name)}})}})

\* a map that replaces the sentinel account and keeps the statementId the
\* parser had set
StampKeepsStatementId(txs, name, statementId) ==
  [k \in 1..Len(txs) |->
     [txs[k] EXCEPT !.accountId = IF @ = UnknownAccount THEN name ELSE @]]

\* a map that gives the filename token to every transaction
StampEveryAccount(txs, name, statementId) ==
  [i \in 1..Len(txs) |->
     [txs[i] EXCEPT !.accountId = name, !.statementId = statementId]]

\* the map of processStatement: the sentinel account replaced by the
\* filename token, the statementId of the call set
StampTransactions(txs, name, statementId) ==
  [i \in 1..Len(txs) |->
     [txs[i] EXCEPT !.accountId = IF @ = UnknownAccount THEN name ELSE @,
                    !.statementId = statementId]]

\* parseStatement has not been called
NotParsed ==
  [raised |-> FALSE, path |-> "none", rows |-> <<>>, txs |-> <<>>,
   faults |-> <<FALSE, FALSE>>]

\* parseStatementWithGemini has not been called
NotAssisted ==
  [raised |-> FALSE, txs |-> <<>>, response |-> [kind |-> "none", items |-> <<>>]]

\* useState<string | null>(null): no message is shown
NoMessage == "null"

NoResult == [success |-> FALSE, transactionsCount |-> -1, error |-> "none"]

Failure(message) == [success |-> FALSE, transactionsCount |-> -1, error |-> message]

Success(count) == [success |-> TRUE, transactionsCount |-> count, error |-> "none"]

(***************************************************************************)
(* Inputs: the uploaded files and the answers of the generation service     *)
(***************************************************************************)
\* longest list of data rows of a CSV file
MaxRows == 2

\* longest list of lines of a plain-text file
MaxLines == 3

\* longest JSON array answered by the generation service
MaxItems == 2

\* a statement with an amount and a type column
TypedHeader ==
  <<<<"D", "a", "t", "e", ",", "D", "e", "s", "c", "r", "i", "p", "t", "i", "o", "n", ",", "A", "m", "o", "u", "n", "t", ",", "T", "y", "p", "e">>>>

\* its rows: dates the runtime parses directly, DD/MM/YY and DD/MM dates,
\* an empty date, date texts no attempt parses, amounts with a sign, a
\* currency symbol, no digits
TypedRows ==
  <<<<"0", "1", "/", "0", "2", "/", "2", "4", ",", "G", "R", "O", "C", "E", "R", "Y", " ", "S", "T", "O", "R", "E", ",", "4", "5", ".", "0", "0", ",", "d", "e", "b", "i", "t">>,
    <<"0", "2", "/", "0", "2", "/", "2", "4", ",", "S", "A", "L", "A", "R", "Y", ",", "2", "5", "0", "0", "0", "0", ".", "0", "0", ",", "c", "r", "e", "d", "i", "t">>,
    <<"1", "5", "/", "0", "3", "/", "2", "4", ",", "R", "e", "f", "u", "n", "d", " ", "s", "h", "o", "e", "s", ",", "-", "1", "2", ".", "5", "0", ",">>,
    <<"1", "5", "/", "0", "3", ",", "c", "o", "f", "f", "e", "e", ",", "$", "3", ".", "0", "0", ",", "d", "r">>,
    <<"2", "0", "2", "4", "-", "0", "3", "-", "1", "5", ",", "r", "e", "n", "t", ",", "a", "b", "c", ",", "c", "r", "e", "d", "i", "t">>,
    <<"g", "a", "r", "b", "a", "g", "e", ",", "l", "u", "n", "c", "h", ",", "9", ".", "9", "9", ",", "d", "e", "b", "i", "t">>,
    <<",", "t", "a", "x", "i", ",", "-", "7", ".", "0", "0", ",", "c", "r">>,
    <<"9", "9", "/", "9", "9", "/", "9", "9", ",", "f", "e", "e", ",", "1", ".", "0", "0", ",", "d", "e", "b", "i", "t">>>>

\* a statement with Deposits and Withdrawals columns
LedgerHeader ==
  <<<<"D", "a", "t", "e", ",", "D", "e", "s", "c", "r", "i", "p", "t", "i", "o", "n", ",", "D", "e", "p", "o", "s", "i", "t", "s", ",", "W", "i", "t", "h", "d", "r", "a", "w", "a", "l", "s", ",", "T", "y", "p", "e">>>>

\* its rows
LedgerRows ==
  <<<<"0", "1", "/", "0", "2", "/", "2", "4", ",", "A", "T", "M", ",", ",", "5", "0", ".", "0", "0", ",", "c", "r", "e", "d", "i", "t">>,
    <<"0", "2", "/", "0", "2", "/", "2", "4", ",", "S", "A", "L", "A", "R", "Y", ",", "1", "0", "0", "0", ".", "0", "0", ",", ",", "d", "e", "b", "i", "t">>,
    <<"0", "3", "/", "0", "2", "/", "2", "4", ",", "B", "O", "T", "H", ",", "2", "0", ".", "0", "0", ",", "3", "0", ".", "0", "0", ",", "c", "r", "e", "d", "i", "t">>,
    <<"0", "4", "/", "0", "2", "/", "2", "4", ",", "r", "e", "f", "u", "n", "d", ",", ",", ",", "d", "e", "b", "i", "t">>,
    <<"0", "5", "/", "0", "2", "/", "2", "4", ",", "c", "h", "e", "q", "u", "e", ",", "$", "5", ".", "0", "0", ",", ",", "d", "e", "b", "i", "t">>>>

\* a statement with an account column
AccountHeader ==
  <<<<"A", "c", "c", "o", "u", "n", "t", " ", "N", "o", ",", "D", "a", "t", "e", ",", "D", "e", "s", "c", "r", "i", "p", "t", "i", "o", "n", ",", "A", "m", "o", "u", "n", "t">>>>

\* its rows
AccountRows ==
  <<<<"1", "2", "3", "4", "5", "6", "7", "8", "9", "0", "1", "2", ",", "0", "1", "/", "0", "2", "/", "2", "4", ",", "s", "h", "o", "p", ",", "5", ".", "0", "0">>,
    <<",", "0", "2", "/", "0", "2", "/", "2", "4", ",", "p", "a", "y", "m", "e", "n", "t", ",", "6", ".", "0", "0">>,
    <<"8", "7", "6", "5", "4", "3", "2", "1", ",", "1", "5", "/", "0", "3", "/", "2", "4", ",", "f", "u", "e", "l", ",", "-", "7", ".", "0", "0">>,
    <<",", "0", "5", "/", "0", "6", ",", "s", "n", "a", "c", "k", ",", "2", ".", "5", "0">>>>

\* the lines of a plain-text statement
TextLines ==
  <<<<"0", "1", "/", "0", "2", "/", "2", "0", "2", "4">>,
    <<"1", "5", "/", "0", "3", " ", "P", "O", "S">>,
    <<"9", "9", "/", "9", "9", "/", "2", "0", "2", "4">>,
    <<"C", "a", "r", "d", " ", "p", "a", "y", "m", "e", "n", "t">>,
    <<"L", "K", "R", " ", "1", ",", "2", "3", "4", ".", "5", "6">>,
    <<"0", ".", "0", "0">>,
    <<"A", "/", "C", " ", "1", "2", "3", "4", "5", "6", "7", "8", "9", "0", "1", "2">>>>

\* file names: the example of the specification, one without an extension,
\* one that is only an extension
FileNames ==
  <<<<"M", "y", " ", "C", "h", "a", "s", "e", "-", "S", "t", "a", "t", "e", "m", "e", "n", "t", "_", "2", "0", "2", "4", ".", "c", "s", "v">>,
    <<"S", "A", "V", "I", "N", "G", "S">>,
    <<".", "c", "s", "v">>>>

\* all lists of at most n elements of the sequence choices
RECURSIVE ListsUpTo(_, _)
ListsUpTo(choices, n) ==
  IF n = 0 THEN {<<>>}
  ELSE ListsUpTo(choices, n - 1) \cup
       {l \o <<choices[i]>> : l \in ListsUpTo(choices, n - 1), i \in 1..Len(choices)}

\* the text of a CSV file: the header line and the rows, one per line
CsvText(header, rows) == Join(header \o rows, "\n")

CsvContents ==
  {CsvText(TypedHeader, rows) : rows \in ListsUpTo(TypedRows, MaxRows)} \cup
  {CsvText(LedgerHeader, rows) : rows \in ListsUpTo(LedgerRows, MaxRows)} \cup
  {CsvText(AccountHeader, rows) : rows \in ListsUpTo(AccountRows, MaxRows)}

TextContents == {Join(lines, "\n") : lines \in ListsUpTo(TextLines, MaxLines)}

\* formData.get("file"): no file, or a file with a name and a content
NoFile == [present |-> FALSE, name |-> <<>>, content |-> <<>>]

\* the files of the parsing runs: every content under the first name, the
\* short typed statements under the other names
Files ==
  {[present |-> TRUE, name |-> FileNames[1], content |-> c] :
     c \in CsvContents \cup TextContents} \cup
  {[present |-> TRUE, name |-> FileNames[n], content |-> CsvText(TypedHeader, rows)] :
     n \in 2..Len(FileNames), rows \in ListsUpTo(TypedRows, 1)}

\* the files of the runs with the generation service
FewFiles ==
  {[present |-> TRUE, name |-> FileNames[1], content |-> <<>>],
   [present |-> TRUE, name |-> FileNames[1],
    content |-> CsvText(TypedHeader, <<TypedRows[1], TypedRows[7]>>)],
   [present |-> TRUE, name |-> FileNames[2],
    content |-> CsvText(TypedHeader, <<TypedRows[6], TypedRows[2]>>)],
   [present |-> TRUE, name |-> FileNames[3],
    content |-> CsvText(LedgerHeader, <<LedgerRows[2], LedgerRows[3]>>)],
   [present |-> TRUE, name |-> FileNames[1],
    content |-> CsvText(AccountHeader, <<AccountRows[1], AccountRows[2]>>)],
   [present |-> TRUE, name |-> FileNames[2],
    content |-> Join(<<TextLines[7], TextLines[1], TextLines[4], TextLines[5]>>, "\n")]}

\* longest list of files of one batch upload
MaxBatch == 3

\* most results the upload form shows over its runs of handleSubmit
MaxShown == 3

\* most calls of processStatement that reach the service in one process
MaxCalls == 2

\* the files of a batch: one with empty content, one statement
BatchFiles ==
  <<[present |-> TRUE, name |-> FileNames[1], content |-> <<>>],
    [present |-> TRUE, name |-> FileNames[2],
     content |-> CsvText(TypedHeader, <<TypedRows[2]>>)]>>

\* files.length === 0 ends handleSubmit at once: a batch has a file
Batches == ListsUpTo(BatchFiles, MaxBatch) \ {<<>>}

\* most keys of a record and most names of a list given to findField
MaxKeys == 2

MaxNames == 2

\* column names: two of the date names, one unlisted name, one number
ProbeKeys ==
  <<<<"d", "a", "t", "e">>, <<"D", "a", "t", "e">>, <<"R", "e", "f">>, <<"7">>>>

\* the candidate names
ProbeNames == <<<<"d", "a", "t", "e">>, <<"D", "a", "t", "e">>>>

\* records of the delimited parser: distinct column names, string values
ProbeRecords ==
  {[i \in 1..Len(p[1]) |-> <<p[1][i], p[2][i]>>] :
     p \in {q \in ListsUpTo(ProbeKeys, MaxKeys) \X ListsUpTo(<<<<>>, <<"x">>>>, MaxKeys) :
              /\ Len(q[1]) = Len(q[2])
              /\ \A a, b \in 1..Len(q[1]) : q[1][a] = q[1][b] => a = b}}

\* most calls of clearTransactionsByMonth in one run
MaxClears == 2

\* the options of the data-management screen and one it does not offer
MonthOptions == {"current", "previous", "2months", "3months", "older", "next"}

\* the days on which data is cleared: every month of a year, and the end
\* of a long month
ClearDays ==
  {MkDate(2026, m, 15) : m \in 1..12} \cup {MkDate(2026, 3, 31), MkDate(2026, 5, 31)}

\* a stored transaction of the given day, at midnight
StoredRow(y, m, d) ==
  [id |-> <<"row", y, m, d>>, date |-> MkDate(y, m, d),
   description |-> <<"f", "e", "e">>, amount |-> Num(TRUE, <<"1">>, <<"0", "0">>),
   categoryId |-> NullCategory, accountId |-> <<"a">>, statementId |-> 0]

\* the table before any clearing: the first and the last day of every
\* month from August 2025 to December 2026
RECURSIVE MonthRows(_)
MonthRows(k) ==
  IF k > 16 THEN <<>>
  ELSE <<StoredRow(JsDate(2025, 7 + k, 1).y, JsDate(2025, 7 + k, 1).m, 1),
         StoredRow(JsDate(2025, 7 + k, 1).y, JsDate(2025, 7 + k, 1).m,
                   DaysInMonth(JsDate(2025, 7 + k, 1).y, JsDate(2025, 7 + k, 1).m))>>
       \o MonthRows(k + 1)

StoredRows == MonthRows(0)

\* most getTransactionsByCategory calls in flight at once
MaxPending == 2

\* most getTransactionSummary calls in flight at once
MaxLoads == 1

\* the time ranges of the dashboard selector (a custom range is left out)
TimeRanges == {"month", "quarter", "year", "all"}

\* three of the seeded categories
Categories ==
  <<[id |-> <<"g", "r", "o", "c", "e", "r", "i", "e", "s">>,
     name |-> <<"G", "r", "o", "c", "e", "r", "i", "e", "s">>],
    [id |-> <<"i", "n", "c", "o", "m", "e">>, name |-> <<"I", "n", "c", "o", "m", "e">>],
    [id |-> <<"o", "t", "h", "e", "r">>, name |-> <<"O", "t", "h", "e", "r">>]>>

\* a stored transaction with an amount and a category
CategoryRow(y, m, d, negative, units, categoryId) ==
  [StoredRow(y, m, d) EXCEPT !.amount = Num(negative, units, <<"0", "0">>),
                             !.categoryId = categoryId]

\* the table of the dashboard runs: an expense and a refund of a category,
\* an expense without category, one of the category "other", an expense
\* of an earlier month and one of an earlier year
DashboardRows ==
  <<CategoryRow(2026, 6, 10, TRUE, <<"7">>, Categories[1].id),
    CategoryRow(2026, 6, 9, FALSE, <<"2">>, Categories[1].id),
    CategoryRow(2026, 6, 8, TRUE, <<"3">>, NullCategory),
    CategoryRow(2026, 6, 7, TRUE, <<"5">>, Categories[3].id),
    CategoryRow(2026, 4, 6, TRUE, <<"1">>, Categories[1].id),
    CategoryRow(2025, 6, 5, TRUE, <<"4">>, Categories[1].id)>>

\* the parts of the table the dashboard is opened on
DashboardTables ==
  {<<>>, DashboardRows, SubSeq(DashboardRows, 1, 2), SubSeq(DashboardRows, 3, 4)}

\* a row of the table as the transaction list reads it
ListRow(id, accountId, d) ==
  [id |-> id, accountId |-> accountId, date |-> MkDate(2026, 6, d)]

\* the table of the transaction list runs: two transactions of one account
\* and one of another
ListRows ==
  <<ListRow("t1", "1111222233", 1), ListRow("t2", "savings", 3),
    ListRow("t3", "1111222233", 2)>>

ListTables == {ListRows, SubSeq(ListRows, 1, 2)}

\* the items of the JSON array of the service: an object with a number
\* amount, one with a string amount and an account number, one without
\* amount, and null
Items ==
  <<[isObject |-> TRUE, date |-> <<"2", "0", "2", "4", "-", "0", "3", "-", "1", "5">>, description |-> <<"C", "o", "f", "f", "e", "e">>,
     amountType |-> "number", amount |-> Num(TRUE, <<"4">>, <<"5", "0">>), amountText |-> <<>>,
     accountNumber |-> Undefined],
    [isObject |-> TRUE, date |-> Undefined, description |-> Undefined,
     amountType |-> "string", amount |-> Zero, amountText |-> <<"$", "1", "2", ".", "5", "0">>,
     accountNumber |-> <<" ", "1", "1", "1", "1", "2", "2", "2", "2", "3", "3", "3", "3", " ">>],
    [isObject |-> TRUE, date |-> <<"1", "5", "/", "0", "3", "/", "2", "4">>, description |-> <<"f", "e", "e">>,
     amountType |-> "missing", amount |-> Zero, amountText |-> <<>>,
     accountNumber |-> Undefined],
    [isObject |-> FALSE, date |-> Undefined, description |-> Undefined,
     amountType |-> "missing", amount |-> Zero, amountText |-> <<>>,
     accountNumber |-> Undefined],
    [isObject |-> TRUE, date |-> <<"2", "0", "2", "4", "-", "0", "3", "-", "1", "6">>, description |-> <<"t", "a", "x">>,
     amountType |-> "string", amount |-> Zero, amountText |-> <<"n", "/", "a">>,
     accountNumber |-> Undefined]>>

\* the answers of the generation service
Responses ==
  {[kind |-> k, items |-> <<>>] : k \in {"network", "http", "envelope", "nojson", "nonarray"}} \cup
  {[kind |-> "array", items |-> l] : l \in ListsUpTo(Items, MaxItems)}

\* the delimited parser raises in getAccountNumberFromCSV (first 5 lines)
\* only if it raises in the main parse too
ParserFaults == {<<FALSE, FALSE>>, <<FALSE, TRUE>>, <<TRUE, TRUE>>}

\* the days the server clock can show
Today == {MkDate(2026, 1, 31), MkDate(2024, 2, 29)}

(***************************************************************************)
(* Actions                                                                  *)
(***************************************************************************)
InitServer ==
  /\ now \in Today
  /\ clock = 0
  /\ apiKey \in BOOLEAN
  /\ file = NoFile
  /\ pc = "idle"
  /\ fileName = <<>>
  /\ requests = 0
  /\ assisted = NotAssisted
  /\ parseCalls = 0
  /\ parsed = NotParsed
  /\ parsedTransactions = <<>>
  /\ transactionsToInsert = <<>>
  /\ db = <<>>
  /\ result = NoResult
  /\ transactions = <<>>

\* no batch upload is under way
NoForm ==
  /\ files = <<>>
  /\ fileIndex = 1
  /\ toasts = <<>>
  /\ uploading = FALSE
  /\ error = NoMessage
  /\ success = NoMessage
  /\ errorOfRender = NoMessage
  /\ shownBefore = 0

\* findField is not under test
NoProbe == probeRecord = <<>> /\ probeNames = <<>> /\ probeFound = Undefined

\* no data has been cleared
NoClear == cleared = <<>>

\* the dashboard is not mounted
NoDashboard ==
  /\ timeRange = "month"
  /\ summary = <<>>
  /\ summaryPending = <<>>
  /\ expandedCategory = NullCategory
  /\ categoryTransactions = <<>>
  /\ loadingTransactions = FALSE
  /\ pending = <<>>

\* the transaction list is not mounted
NoList ==
  /\ listed = <<>>
  /\ selectedTransactions = {}
  /\ selectMode = FALSE
  /\ accountFilter = "all"
  /\ dialogOpen = "none"
  /\ transactionToDelete = NoMessage
  /\ accountToDelete = NoMessage

\* the other screens are not in use
NoScreens == NoClear /\ NoDashboard /\ NoList

\* one call of processStatement
Init == InitServer /\ NoForm /\ NoProbe /\ NoScreens

\* parseStatement called in the catch block of the strategies, then the
\* stamping and the call of createMany; calls counts this call and the
\* one that raised before it, if any.  An exception of parseStatement
\* here reaches the outer catch of processStatement.
RunParseStatement(name, fault, calls) ==
  \E p \in {parseStatement(file.content, name, fault[1], fault[2])} :
    /\ parsed' = p
    /\ parseCalls' = parseCalls + calls
    /\ IF p.raised
       THEN /\ result' = Failure("Failed to process statement file")
            /\ pc' = "done"
            /\ UNCHANGED <<clock, parsedTransactions, transactionsToInsert>>
       ELSE /\ \E dt \in 0..1 : clock' = clock + dt
            /\ parsedTransactions' = p.txs
            /\ transactionsToInsert' = StampTransactions(p.txs, name, clock')
            /\ pc' = "inserting"
            /\ UNCHANGED result

\* parseStatement called in the else branch of the try block: an exception
\* of this call is caught by the catch block, which calls it again
RunParseStatementInTry(name, fault) ==
  IF parseStatement(file.content, name, fault[1], fault[2]).raised
  THEN \E again \in ParserFaults : RunParseStatement(name, again, 2)
  ELSE RunParseStatement(name, fault, 1)

\* processStatement is called with no file: "No file provided"
RejectMissingFile ==
  /\ pc = "idle"
  /\ file' = NoFile
  /\ result' = Failure("No file provided")
  /\ pc' = "done"
  /\ UNCHANGED <<now, clock, apiKey, fileName, requests, assisted, parseCalls,
                 parsed, parsedTransactions, transactionsToInsert, db>>
  /\ UNCHANGED <<transactions, form, probe, screens>>

\* processStatement is called with a file and awaits file.text()
StartRead(uploads) ==
  /\ pc = "idle"
  /\ \E f \in uploads : file' = f
  /\ pc' = "reading"
  /\ UNCHANGED <<now, clock, apiKey, fileName, requests, assisted, parseCalls,
                 parsed, parsedTransactions, transactionsToInsert, db, result>>
  /\ UNCHANGED <<transactions, form, probe, screens>>

\* the empty content noticed only after the request to the service is sent
RejectEmptyContentAfterRequest ==
  /\ pc = "reading"
  /\ file.content = <<>>
  /\ requests' = requests + 1
  /\ result' = Failure("Empty file content")
  /\ pc' = "done"
  /\ UNCHANGED <<now, clock, file, apiKey, fileName, assisted,
                 parseCalls, parsed, parsedTransactions, transactionsToInsert, db>>
  /\ UNCHANGED <<transactions, form, probe, screens>>

\* the content is empty: "Empty file content"
RejectEmptyContent ==
  /\ pc = "reading"
  /\ file.content = <<>>
  /\ result' = Failure("Empty file content")
  /\ pc' = "done"
  /\ UNCHANGED <<now, clock, file, apiKey, fileName, requests, assisted,
                 parseCalls, parsed, parsedTransactions, transactionsToInsert, db>>
  /\ UNCHANGED <<transactions, form, probe, screens>>

\* parseStatement called with the lower-cased file name instead of the
\* sanitized token
ParseWithoutKeyRawName ==
  /\ pc = "reading"
  /\ file.content # <<>>
  /\ ~apiKey
  /\ fileName' = SanitizeFileName(file.name)
  /\ \E fault \in ParserFaults : RunParseStatement(ToLowerCase(file.name), fault, 1)
  /\ UNCHANGED <<now, file, apiKey, requests, assisted, db>>
  /\ UNCHANGED <<transactions, form, probe, screens>>

\* no GEMINI_API_KEY: the throw is caught, parseStatement runs
ParseWithoutKey ==
  /\ pc = "reading"
  /\ file.content # <<>>
  /\ ~apiKey
  /\ fileName' = SanitizeFileName(file.name)
  /\ \E fault \in ParserFaults : RunParseStatement(fileName', fault, 1)
  /\ UNCHANGED <<now, file, apiKey, requests, assisted, db>>
  /\ UNCHANGED <<transactions, form, probe, screens>>

\* a key is set: parseStatementWithGemini sends its request and awaits
SendRequest ==
  /\ pc = "reading"
  /\ file.content # <<>>
  /\ apiKey
  /\ fileName' = SanitizeFileName(file.name)
  /\ requests' = requests + 1
  /\ pc' = "fetching"
  /\ UNCHANGED <<now, clock, file, apiKey, assisted, parseCalls, parsed,
                 parsedTransactions, transactionsToInsert, db, result>>
  /\ UNCHANGED <<transactions, form, probe, screens>>

\* the answer gives a non-empty list: it is stamped and handed to createMany
AssistedSucceeds ==
  /\ pc = "fetching"
  /\ \E response \in Responses :
       \E g \in {parseStatementWithGemini(file.content, fileName, response)} :
         /\ ~g.raised
         /\ Len(g.txs) > 0
         /\ assisted' = g
         /\ parsedTransactions' = g.txs
         /\ transactionsToInsert' = StampTransactions(g.txs, fileName, clock)
  /\ pc' = "inserting"
  /\ UNCHANGED <<now, clock, file, apiKey, fileName, requests, parseCalls, parsed, db, result>>
  /\ UNCHANGED <<transactions, form, probe, screens>>

\* parseStatement run after every answer, also after a non-empty list
AssistedAlwaysFallsBack ==
  /\ pc = "fetching"
  /\ \E response \in Responses :
       assisted' = parseStatementWithGemini(file.content, fileName, response)
  /\ \E fault \in ParserFaults : RunParseStatement(fileName, fault, 1)
  /\ UNCHANGED <<now, file, apiKey, fileName, requests, db>>
  /\ UNCHANGED <<transactions, form, probe, screens>>

\* the answer gives an empty list, or parseStatementWithGemini raises:
\* parseStatement runs
AssistedFallsBack ==
  /\ pc = "fetching"
  /\ \E response \in Responses :
       \E g \in {parseStatementWithGemini(file.content, fileName, response)} :
         /\ g.raised \/ Len(g.txs) = 0
         /\ assisted' = g
         /\ \E fault \in ParserFaults :
              IF g.raised THEN RunParseStatement(fileName, fault, 1)
              ELSE RunParseStatementInTry(fileName, fault)
  /\ UNCHANGED <<now, file, apiKey, fileName, requests, db>>
  /\ UNCHANGED <<transactions, form, probe, screens>>

\* createMany resolves: the rows are stored, success is returned
InsertCompletes ==
  /\ pc = "inserting"
  /\ db' = db \o transactionsToInsert
  /\ result' = Success(Len(transactionsToInsert))
  /\ pc' = "done"
  /\ UNCHANGED <<now, clock, file, apiKey, fileName, requests, assisted,
                 parseCalls, parsed, parsedTransactions, transactionsToInsert>>
  /\ UNCHANGED <<transactions, form, probe, screens>>

\* createMany resolves and revalidatePath raises: the rows are stored, the
\* catch of processStatement returns the failure
RevalidateFails ==
  /\ pc = "inserting"
  /\ db' = db \o transactionsToInsert
  /\ result' = Failure("Failed to process statement file")
  /\ pc' = "done"
  /\ UNCHANGED <<now, clock, file, apiKey, fileName, requests, assisted,
                 parseCalls, parsed, parsedTransactions, transactionsToInsert>>
  /\ UNCHANGED <<transactions, form, probe, screens>>

\* what the caller sees when an exception leaves processStatement
Uncaught == [success |-> FALSE, transactionsCount |-> -1, error |-> "uncaught"]

\* createMany rejects and the exception leaves processStatement
InsertFailsUncaught ==
  /\ pc = "inserting"
  /\ result' = Uncaught
  /\ pc' = "done"
  /\ UNCHANGED <<now, clock, file, apiKey, fileName, requests, assisted,
                 parseCalls, parsed, parsedTransactions, transactionsToInsert, db>>
  /\ UNCHANGED <<transactions, form, probe, screens>>

\* createMany rejects: the catch of processStatement returns the failure
InsertFails ==
  /\ pc = "inserting"
  /\ result' = Failure("Failed to process statement file")
  /\ pc' = "done"
  /\ UNCHANGED <<now, clock, file, apiKey, fileName, requests, assisted,
                 parseCalls, parsed, parsedTransactions, transactionsToInsert, db>>
  /\ UNCHANGED <<transactions, form, probe, screens>>

\* UploadForm.handleFileChange: a file is added to the list and the error
\* message is taken away
HandleFileChange ==
  /\ ~uploading
  /\ Len(files) < MaxBatch
  /\ \E k \in 1..Len(BatchFiles) : files' = Append(files, BatchFiles[k])
  /\ error' = NoMessage
  /\ UNCHANGED <<now, clock, file, apiKey, pc, fileName, requests, assisted,
                 parseCalls, parsed, parsedTransactions, transactionsToInsert,
                 db, result, transactions, fileIndex, toasts, uploading,
                 success, errorOfRender, shownBefore, probe, screens>>

\* UploadForm.handleSubmit up to its loop: files.length === 0 returns at
\* once; the flags are set and both messages are taken away.  The handler
\* is the closure of the last render: the error it reads later is the
\* error state of that render, which setError does not change.
HandleSubmit ==
  /\ ~uploading
  /\ Len(files) > 0
  /\ Len(toasts) + Len(files) <= MaxShown
  /\ shownBefore' = Len(toasts)
  /\ uploading' = TRUE
  /\ error' = NoMessage
  /\ success' = NoMessage
  /\ errorOfRender' = error
  /\ fileIndex' = 1
  /\ UNCHANGED <<now, clock, file, apiKey, pc, fileName, requests, assisted,
                 parseCalls, parsed, parsedTransactions, transactionsToInsert,
                 db, result, transactions, files, toasts, probe, screens>>

\* UploadForm.handleSubmit: formData.append("file", files[i]) and the call
\* of processStatement, awaited
CallProcessStatement ==
  /\ uploading
  /\ fileIndex \in 1..Len(files)
  /\ StartRead({files[fileIndex]})

\* UploadForm.handleSubmit: the awaited call rejects (the request of the
\* server action does not get through); the catch sets the error message,
\* the finally block ends the upload, the files stay selected
CallRejects ==
  /\ uploading
  /\ pc = "idle"
  /\ fileIndex \in 1..Len(files)
  /\ error' = "Error processing statements"
  /\ uploading' = FALSE
  /\ UNCHANGED <<now, clock, file, apiKey, pc, fileName, requests, assisted,
                 parseCalls, parsed, parsedTransactions, transactionsToInsert,
                 db, result, transactions, files, fileIndex, toasts, success,
                 errorOfRender, shownBefore, probe, screens>>

\* a loop that ends at the first failure result
ShowResultStopsOnFailure ==
  /\ pc = "done"
  /\ fileIndex \in 1..Len(files)
  /\ toasts' = Append(toasts, [file |-> file, result |-> result, stored |-> db])
  /\ error' = IF result.success THEN error ELSE "Failed to process"
  /\ fileIndex' = IF result.success THEN fileIndex + 1 ELSE Len(files) + 1
  /\ pc' = "idle"
  /\ file' = NoFile
  /\ fileName' = <<>>
  /\ requests' = 0
  /\ assisted' = NotAssisted
  /\ parseCalls' = 0
  /\ parsed' = NotParsed
  /\ parsedTransactions' = <<>>
  /\ transactionsToInsert' = <<>>
  /\ result' = NoResult
  /\ UNCHANGED <<now, clock, apiKey, db, transactions, files, uploading,
                 success, errorOfRender, shownBefore, probe, screens>>

\* UploadForm.handleSubmit after the await: the toast of the result,
\* success or failure, the error message of a failure, and the next turn
\* of the loop; the call of processStatement is over and its locals are
\* gone.  stored keeps the rows of the table at that moment.
ShowResult ==
  /\ pc = "done"
  /\ fileIndex \in 1..Len(files)
  /\ toasts' = Append(toasts, [file |-> file, result |-> result, stored |-> db])
  /\ error' = IF result.success THEN error ELSE "Failed to process"
  /\ fileIndex' = fileIndex + 1
  /\ pc' = "idle"
  /\ file' = NoFile
  /\ fileName' = <<>>
  /\ requests' = 0
  /\ assisted' = NotAssisted
  /\ parseCalls' = 0
  /\ parsed' = NotParsed
  /\ parsedTransactions' = <<>>
  /\ transactionsToInsert' = <<>>
  /\ result' = NoResult
  /\ UNCHANGED <<now, clock, apiKey, db, transactions, files, uploading,
                 success, errorOfRender, shownBefore, probe, screens>>

\* UploadForm.handleSubmit after its loop: if (!error) takes the files away
\* and shows the success message; the finally block ends the upload
FinishSubmit ==
  /\ uploading
  /\ pc = "idle"
  /\ fileIndex = Len(files) + 1
  /\ IF errorOfRender = NoMessage
       THEN files' = <<>> /\ success' = "Successfully processed"
       ELSE UNCHANGED <<files, success>>
  /\ uploading' = FALSE
  /\ UNCHANGED <<now, clock, file, apiKey, pc, fileName, requests, assisted,
                 parseCalls, parsed, parsedTransactions, transactionsToInsert,
                 db, result, transactions, fileIndex, toasts, error,
                 errorOfRender, shownBefore, probe, screens>>

\* the upload form without a key: files are selected and submitted
InitBatch ==
  /\ InitServer
  /\ ~apiKey
  /\ NoForm
  /\ NoProbe
  /\ NoScreens

NextBatch ==
  \/ HandleFileChange
  \/ HandleSubmit
  \/ CallProcessStatement
  \/ CallRejects
  \/ RejectEmptyContent
  \/ ParseWithoutKey
  \/ InsertCompletes
  \/ RevalidateFails
  \/ InsertFails
  \/ ShowResult
  \/ FinishSubmit

SpecBatch == InitBatch /\ [][NextBatch]_vars

\* a where clause that takes the target month in the current year, also
\* from January to March
DeleteConditionSameYear(monthOption, date) ==
  LET year == now.y
      month == now.m - 1
      firstOfMonth == JsDate(year, month, 1)
      ago(n) == month - n
      normalized(n) == IF ago(n) < 0 THEN 12 + ago(n) ELSE ago(n)
      cutoffDate == JsDate(year, month - 3, now.d)
  IN CASE monthOption = "current" -> DateBefore(date, firstOfMonth)
       [] monthOption = "previous" ->
            /\ ~DateBefore(date, JsDate(year, IF ago(1) < 0 THEN 11 ELSE ago(1), 1))
            /\ DateBefore(date, firstOfMonth)
       [] monthOption \in {"2months", "3months"} ->
            LET n == IF monthOption = "2months" THEN 2 ELSE 3
            IN /\ ~DateBefore(date, JsDate(year, normalized(n), 1))
               /\ DateBefore(date, JsDate(year, normalized(n) + 1, 1))
       [] monthOption = "older" -> DateBefore(date, cutoffDate) \/ date = cutoffDate
       [] OTHER -> FALSE

\* the where clause of clearTransactionsByMonth: the row is deleted.  The
\* rows are dated at midnight and the call runs later in its day, so a row
\* of the cut-off day of "older" lies before the cut-off.
DeleteCondition(monthOption, date) ==
  LET year == now.y
      month == now.m - 1
      firstOfMonth == JsDate(year, month, 1)
      ago(n) == month - n
      yearOf(n) == IF ago(n) < 0 THEN year - 1 ELSE year
      normalized(n) == IF ago(n) < 0 THEN 12 + ago(n) ELSE ago(n)
      cutoffDate == JsDate(year, month - 3, now.d)
  IN CASE monthOption = "current" -> DateBefore(date, firstOfMonth)
       [] monthOption = "previous" ->
            /\ ~DateBefore(date, JsDate(yearOf(1), IF ago(1) < 0 THEN 11 ELSE ago(1), 1))
            /\ DateBefore(date, firstOfMonth)
       [] monthOption \in {"2months", "3months"} ->
            LET n == IF monthOption = "2months" THEN 2 ELSE 3
            IN /\ ~DateBefore(date, JsDate(yearOf(n), normalized(n), 1))
               /\ DateBefore(date, JsDate(yearOf(n), normalized(n) + 1, 1))
       [] monthOption = "older" -> DateBefore(date, cutoffDate) \/ date = cutoffDate
       [] OTHER -> FALSE

\* the rows deleteMany leaves
RowsKept(rows, monthOption) ==
  LET kept == {i \in 1..Len(rows) : ~DeleteCondition(monthOption, rows[i].date)}
      place(n) == CHOOSE i \in kept : Cardinality({j \in kept : j <= i}) = n
  IN [n \in 1..Cardinality(kept) |-> rows[place(n)]]

\* clearTransactionsByMonth(monthOption): deleteMany with the condition of
\* the option; an unknown option returns before it
ClearTransactionsByMonth(monthOption) ==
  /\ Len(cleared) < MaxClears
  /\ db' = RowsKept(db, monthOption)
  /\ cleared' = Append(cleared, monthOption)
  /\ UNCHANGED <<now, clock, file, apiKey, pc, fileName, requests, assisted,
                 parseCalls, parsed, parsedTransactions, transactionsToInsert,
                 result, transactions, form, probe, dashboard, listState>>

\* clearAllTransactions: deleteMany without a condition
ClearAllTransactions ==
  /\ Len(cleared) < MaxClears
  /\ db' = <<>>
  /\ cleared' = Append(cleared, "all")
  /\ UNCHANGED <<now, clock, file, apiKey, pc, fileName, requests, assisted,
                 parseCalls, parsed, parsedTransactions, transactionsToInsert,
                 result, transactions, form, probe, dashboard, listState>>

\* the data-management screen on a filled table
InitClear ==
  /\ now \in ClearDays
  /\ clock = 0
  /\ apiKey = FALSE
  /\ file = NoFile
  /\ pc = "idle"
  /\ fileName = <<>>
  /\ requests = 0
  /\ assisted = NotAssisted
  /\ parseCalls = 0
  /\ parsed = NotParsed
  /\ parsedTransactions = <<>>
  /\ transactionsToInsert = <<>>
  /\ db = StoredRows
  /\ result = NoResult
  /\ transactions = <<>>
  /\ NoForm
  /\ NoProbe
  /\ NoScreens

NextClear ==
  \/ \E monthOption \in MonthOptions : ClearTransactionsByMonth(monthOption)
  \/ ClearAllTransactions

SpecClear == InitClear /\ [][NextClear]_vars

(***************************************************************************)
(* Dashboard                                                                *)
(***************************************************************************)
\* startDate of the time range
RangeStart(range) ==
  CASE range = "quarter" -> JsDate(now.y, ((now.m - 1) \div 3) * 3, 1)
    [] range = "year" -> JsDate(now.y, 0, 1)
    [] range = "all" -> JsDate(2000, 0, 1)
    [] OTHER -> JsDate(now.y, now.m - 1, 1)

\* the date filter of both queries: none for "all", else gte startDate
\* and lte now
InRange(range, date) ==
  \/ range = "all"
  \/ ~DateBefore(date, RangeStart(range)) /\ ~DateBefore(now, date)

\* orderBy date desc
RECURSIVE OrderByDateDesc(_)
OrderByDateDesc(rows) ==
  IF rows = <<>> THEN <<>>
  ELSE LET latest == CHOOSE i \in 1..Len(rows) :
                       \A j \in 1..Len(rows) :
                         DateBefore(rows[j].date, rows[i].date) \/ rows[j].date = rows[i].date
           others == [k \in 1..(Len(rows) - 1) |-> IF k < latest THEN rows[k] ELSE rows[k + 1]]
       IN <<rows[latest]>> \o OrderByDateDesc(others)

\* getTransactionsByCategory: the rows of the category in the range,
\* latest first
getTransactionsByCategory(categoryId, range) ==
  LET where(t) == t.categoryId = categoryId /\ InRange(range, t.date)
  IN OrderByDateDesc(SelectSeq(db, where))

\* transaction.category?.name || 'Other'
CategoryName(t) ==
  IF t.categoryId = NullCategory THEN Categories[3].name
  ELSE Categories[CHOOSE c \in 1..Len(Categories) : Categories[c].id = t.categoryId].name

\* an amount with two decimals in hundredths
Cents(a) ==
  (IF a.neg THEN -1 ELSE 1) * (100 * DigitsValue(a.int) + DigitsValue(a.frac))

\* the expenses of getTransactionSummary: the rows of the range below zero
Expenses(range) ==
  LET expense(t) == InRange(range, t.date) /\ IsNegative(t.amount)
  IN SelectSeq(db, expense)

\* the reduce over the expenses: one entry per category name in order of
\* first appearance, the amounts added up
RECURSIVE ByCategory(_, _)
ByCategory(rows, acc) ==
  IF rows = <<>> THEN acc
  ELSE LET name == CategoryName(rows[1])
           amount == 0 - Cents(rows[1].amount)
           at == {k \in 1..Len(acc) : acc[k].category = name}
       IN ByCategory(Tail(rows),
            IF at = {} THEN Append(acc, [category |-> name, amount |-> amount])
            ELSE [k \in 1..Len(acc) |->
                    IF k \in at THEN [acc[k] EXCEPT !.amount = @ + amount] ELSE acc[k]])

\* getTransactionSummary: expensesByCategory, empty for an empty table
getTransactionSummary(range) ==
  IF Len(db) = 0 THEN <<>> ELSE ByCategory(Expenses(range), <<>>)

\* the time range selector: setTimeRange; the effect calls loadSummary
SetTimeRange(range) ==
  /\ Len(summaryPending) < MaxLoads
  /\ timeRange' = range
  /\ summaryPending' = Append(summaryPending, range)
  /\ UNCHANGED <<summary, expandedCategory, categoryTransactions,
                 loadingTransactions, pending>>
  /\ UNCHANGED <<now, clock, file, apiKey, pc, fileName, requests, assisted,
                 parseCalls, parsed, parsedTransactions, transactionsToInsert,
                 db, result, transactions, form, probe, cleared, listState>>

\* loadSummary after its await: setSummary
SummaryArrives ==
  /\ \E k \in 1..Len(summaryPending) :
       /\ summary' = getTransactionSummary(summaryPending[k])
       /\ summaryPending' = [j \in 1..(Len(summaryPending) - 1) |->
                               IF j < k THEN summaryPending[j] ELSE summaryPending[j + 1]]
  /\ UNCHANGED <<timeRange, expandedCategory, categoryTransactions,
                 loadingTransactions, pending>>
  /\ UNCHANGED <<now, clock, file, apiKey, pc, fileName, requests, assisted,
                 parseCalls, parsed, parsedTransactions, transactionsToInsert,
                 db, result, transactions, form, probe, cleared, listState>>

\* toggleCategory up to its await: the click on the row k of the breakdown.
\* The expanded row is collapsed; another row is expanded, the loading flag
\* set and getTransactionsByCategory called with the time range.
ToggleCategory(k) ==
  /\ k \in 1..Len(summary)
  /\ LET categoryId == ToLowerCase(summary[k].category)
     IN IF expandedCategory = categoryId
        THEN /\ expandedCategory' = NullCategory
             /\ categoryTransactions' = <<>>
             /\ UNCHANGED <<loadingTransactions, pending>>
        ELSE /\ Len(pending) < MaxPending
             /\ expandedCategory' = categoryId
             /\ loadingTransactions' = TRUE
             /\ pending' = Append(pending, [categoryId |-> categoryId, timeRange |-> timeRange])
             /\ UNCHANGED categoryTransactions
  /\ UNCHANGED <<timeRange, summary, summaryPending>>
  /\ UNCHANGED <<now, clock, file, apiKey, pc, fileName, requests, assisted,
                 parseCalls, parsed, parsedTransactions, transactionsToInsert,
                 db, result, transactions, form, probe, cleared, listState>>

\* toggleCategory after its await: the call k returns its rows, or raises;
\* the rows are set, and the loading flag is cleared in both cases
TransactionsArrive(k, raises) ==
  /\ k \in 1..Len(pending)
  /\ categoryTransactions' =
       IF raises THEN categoryTransactions
       ELSE getTransactionsByCategory(pending[k].categoryId, pending[k].timeRange)
  /\ loadingTransactions' = FALSE
  /\ pending' = [j \in 1..(Len(pending) - 1) |->
                   IF j < k THEN pending[j] ELSE pending[j + 1]]
  /\ UNCHANGED <<timeRange, summary, summaryPending, expandedCategory>>
  /\ UNCHANGED <<now, clock, file, apiKey, pc, fileName, requests, assisted,
                 parseCalls, parsed, parsedTransactions, transactionsToInsert,
                 db, result, transactions, form, probe, cleared, listState>>

\* the dashboard mounted on a table: the effect has called loadSummary
InitDashboard ==
  /\ now \in {MkDate(2026, 6, 15), MkDate(2026, 6, 8)}
  /\ clock = 0
  /\ apiKey = FALSE
  /\ file = NoFile
  /\ pc = "idle"
  /\ fileName = <<>>
  /\ requests = 0
  /\ assisted = NotAssisted
  /\ parseCalls = 0
  /\ parsed = NotParsed
  /\ parsedTransactions = <<>>
  /\ transactionsToInsert = <<>>
  /\ db \in DashboardTables
  /\ result = NoResult
  /\ transactions = <<>>
  /\ NoForm
  /\ NoProbe
  /\ NoClear
  /\ timeRange = "month"
  /\ summary = <<>>
  /\ summaryPending = <<"month">>
  /\ expandedCategory = NullCategory
  /\ categoryTransactions = <<>>
  /\ loadingTransactions = FALSE
  /\ pending = <<>>
  /\ NoList

NextDashboard ==
  \/ \E range \in TimeRanges : SetTimeRange(range)
  \/ SummaryArrives
  \/ \E k \in 1..Len(Categories) : ToggleCategory(k)
  \/ \E k \in 1..MaxPending, raises \in BOOLEAN : TransactionsArrive(k, raises)

SpecDashboard == InitDashboard /\ [][NextDashboard]_vars

\* a call of findField: the returned name; the record is only read
CallFindField ==
  /\ probeFound' = findField(probeRecord, probeNames)
  /\ UNCHANGED <<probeRecord, probeNames>>
  /\ UNCHANGED <<now, clock, apiKey, file, pc, fileName, requests, assisted,
                 parseCalls, parsed, parsedTransactions, transactionsToInsert,
                 db, result, transactions, form, screens>>

\* findField on the records and the name lists
InitFind ==
  /\ InitServer
  /\ NoForm
  /\ probeRecord \in ProbeRecords
  /\ probeNames \in ListsUpTo(ProbeNames, MaxNames)
  /\ probeFound = Undefined
  /\ NoScreens

NextFind == CallFindField

SpecFind == InitFind /\ [][NextFind]_vars

\* the answers of the service that give at least one transaction
FruitfulResponses(content, name) ==
  {response \in Responses :
     \E g \in {parseStatementWithGemini(content, name, response)} :
       ~g.raised /\ Len(g.txs) > 0}

\* the map of the in-memory variant of processStatement: an id made of
\* the clock and the index, the statementId of the call
WithIds(txs, statementId) ==
  [i \in 1..Len(txs) |->
     [txs[i] EXCEPT !.id = <<"tx", statementId, i - 1>>,
                    !.statementId = statementId]]

\* the in-memory variant with a key: the request is sent with the
\* lower-cased file name
SendRequestInMemory ==
  /\ pc = "reading"
  /\ file.content # <<>>
  /\ apiKey
  /\ fileName' = ToLowerCase(file.name)
  /\ requests' = requests + 1
  /\ pc' = "fetching"
  /\ UNCHANGED <<now, clock, file, apiKey, assisted, parseCalls, parsed,
                 parsedTransactions, transactionsToInsert, db, result>>
  /\ UNCHANGED <<transactions, form, probe, screens>>

\* the in-memory variant after an answer that gives transactions: they are
\* appended to the module-level array, then revalidatePath runs; success
\* is returned, or the failure of the catch when revalidatePath raises
StoreInMemory ==
  /\ pc = "fetching"
  /\ \E response \in FruitfulResponses(file.content, fileName) :
       \E g \in {parseStatementWithGemini(file.content, fileName, response)} :
         /\ assisted' = g
         /\ parsedTransactions' = g.txs
         /\ transactionsToInsert' = WithIds(g.txs, clock)
  /\ transactions' = transactions \o transactionsToInsert'
  /\ \E revalidated \in BOOLEAN :
       result' = IF revalidated THEN Success(Len(transactionsToInsert'))
                 ELSE Failure("Failed to process statement file")
  /\ pc' = "done"
  /\ UNCHANGED <<now, clock, file, apiKey, fileName, requests, parseCalls,
                 parsed, db, form, probe, screens>>

\* the next call of processStatement in the same server process
NextCall ==
  /\ pc = "done"
  /\ requests < MaxCalls
  /\ pc' = "idle"
  /\ file' = NoFile
  /\ fileName' = <<>>
  /\ assisted' = NotAssisted
  /\ parsedTransactions' = <<>>
  /\ transactionsToInsert' = <<>>
  /\ result' = NoResult
  /\ UNCHANGED <<now, clock, apiKey, requests, parseCalls, parsed, db,
                 transactions, form, probe, screens>>

\* the in-memory variant of processStatement with a key, on answers of the
\* service that give transactions; its name-based parsers, which run on
\* the other answers, are outside this specification
InitMemory == Init /\ apiKey

NextMemory ==
  \/ RejectMissingFile
  \/ StartRead(FewFiles)
  \/ RejectEmptyContent
  \/ SendRequestInMemory
  \/ StoreInMemory
  \/ NextCall

SpecMemory == InitMemory /\ [][NextMemory]_vars

\* processStatement with or without a key, on the few files
Next ==
  \/ RejectMissingFile
  \/ StartRead(FewFiles)
  \/ RejectEmptyContent
  \/ ParseWithoutKey
  \/ SendRequest
  \/ AssistedSucceeds
  \/ AssistedFallsBack
  \/ InsertCompletes
  \/ RevalidateFails
  \/ InsertFails

Spec == Init /\ [][Next]_vars

\* processStatement with a key
InitLive == Init /\ apiKey

NextLive ==
  \/ StartRead(FewFiles)
  \/ RejectEmptyContent
  \/ SendRequest
  \/ AssistedSucceeds
  \/ AssistedFallsBack
  \/ InsertCompletes
  \/ RevalidateFails
  \/ InsertFails

\* processStatement takes its own steps and the store answers createMany;
\* nothing makes the generation service answer the request: fetch is called
\* without signal or timeout (lines 128-151), so the steps that follow the
\* answer carry no fairness
SpecLive ==
  /\ InitLive
  /\ [][NextLive]_vars
  /\ WF_vars(RejectEmptyContent)
  /\ WF_vars(SendRequest)
  /\ WF_vars(InsertCompletes \/ RevalidateFails \/ InsertFails)

\* processStatement without a key, on every file: the runs of parseStatement
InitParse == Init /\ ~apiKey

NextParse ==
  \/ StartRead(Files)
  \/ ParseWithoutKey
  \/ InsertCompletes
  \/ RevalidateFails
  \/ InsertFails

SpecParse == InitParse /\ [][NextParse]_vars

(***************************************************************************)
(* Properties                                                               *)
(***************************************************************************)
\* the records the main delimited parse gives for the uploaded file
RecordsOfFile == ParseCSV(file.content, TRUE, 0)

\* a record whose row is well formed: its date is read and its amount is
\* a number other than zero
WellFormedRecord(record) ==
  ~MapRecord(record, <<>>).raised /\ KeepRow(MapRecord(record, <<>>))

\* the returned rows hold the transaction of the record
Emitted(record) ==
  /\ parsed.path = "csv"
  /\ \E i \in 1..Len(parsed.rows) : parsed.rows[i].record = record

\* the returned rows hold the transaction of the triplet that starts at line i
EmittedLine(i) ==
  /\ parsed.path = "text"
  /\ \E k \in 1..Len(parsed.rows) : parsed.rows[k].line = i

\* C1: every transaction returned by parseStatement, from the CSV row
\* mapping or from the plain-text line scanner, has an amount that is
\* neither zero nor NaN.
C1_AmountNeitherZeroNorNaN ==
  \A i \in 1..Len(parsed.txs) :
    ~IsNaN(parsed.txs[i].amount) /\ ~IsZero(parsed.txs[i].amount)

\* C2: a row with a malformed date or amount never aborts the batch: every
\* well-formed CSV row of the file yields its transaction when the
\* delimited parse succeeds, and every date/description/amount triplet
\* with a readable date yields its transaction when the line scanner runs.
C2_BadRowNeverAborts ==
  parsed.path # "none" =>
    IF ~parsed.faults[2]
    THEN \A k \in 1..Len(RecordsOfFile) :
           WellFormedRecord(RecordsOfFile[k]) => Emitted(RecordsOfFile[k])
    ELSE LET lines == Split(file.content, "\n")
         IN \A i \in 1..Len(lines) :
              (ScanHit(lines, i) /\ PatternDate(MatchDate(lines[i])).valid)
                => EmittedLine(i)

\* no attempt reads the non-empty date text: the direct parse is invalid
\* and the DD/MM/YY[YY] and DD/MM patterns give no valid date
DateUnreadable(text) ==
  /\ Truthy(text)
  /\ ~NewDate(text).valid
  /\ ~(MatchDate(text).found /\ PatternDate(MatchDate(text)).valid)

\* C3: in the CSV path a row whose non-empty date value fails every
\* parsing attempt is emitted with the current date: nothing is raised
\* and the row is not lost (unless its amount is zero).
C3_UnreadableDateBecomesNow ==
  (parsed.path # "none" /\ ~parsed.faults[2]) =>
    \A k \in 1..Len(RecordsOfFile) :
      LET record == RecordsOfFile[k]
      IN (/\ DateUnreadable(Get(record, findField(record, dateFields)))
          /\ KeepRow(MapRecord(record, <<>>)))
         => /\ parsed.path = "csv"
            /\ \E i \in 1..Len(parsed.rows) :
                 /\ parsed.rows[i].record = record
                 /\ parsed.rows[i].tx.date = now

\* the account chain of the specification: the value of a known account
\* column, else the detected account number, else the filename token,
\* else "unknown-account"
ChainAccountId(record) ==
  LET named == {i \in 1..Len(accountFields) : Truthy(Get(record, accountFields[i]))}
      detected == getAccountNumberFromCSV(file.content, parsed.faults[1])
  IN IF named # {}
     THEN Get(record, accountFields[CHOOSE i \in named : \A j \in named : i <= j])
     ELSE IF detected # <<>> THEN detected
     ELSE IF fileName # <<>> THEN fileName
     ELSE UnknownAccount

\* C4: every transaction processStatement persists from a CSV carries the
\* accountId of the chain; without account column and detected number it
\* is the sanitized filename token.
C4_AccountIdFollowsChain ==
  (pc = "inserting" /\ parsed.path = "csv") =>
    \A i \in 1..Len(transactionsToInsert) :
      transactionsToInsert[i].accountId = ChainAccountId(parsed.rows[i].record)

\* C5: every row output by the CSV path has amount > 0 if and only if it
\* was classified as credit by the last applicable sign rule, and
\* amount < 0 otherwise, whatever the sign of the amount that was read.
C5_SignFollowsCredit ==
  parsed.path = "csv" =>
    \A i \in 1..Len(parsed.rows) :
      /\ IsPositive(parsed.rows[i].tx.amount) <=> parsed.rows[i].isCredit
      /\ IsNegative(parsed.rows[i].tx.amount) <=> ~parsed.rows[i].isCredit

\* a credit row read with a minus sign next to a debit row read without
C5_Witness ==
  /\ parsed.path = "csv"
  /\ \E i, j \in 1..Len(parsed.rows) :
       /\ parsed.rows[i].isCredit
       /\ RowMagnitude(parsed.rows[i].record).neg
       /\ IsPositive(parsed.rows[i].tx.amount)
       /\ ~parsed.rows[j].isCredit
       /\ ~RowMagnitude(parsed.rows[j].record).neg
       /\ IsNegative(parsed.rows[j].tx.amount)

\* C6: in the CSV path a positive Withdrawals value yields -Withdrawals,
\* also when Deposits is positive; a positive Deposits value without a
\* positive Withdrawals value yields +Deposits; whatever the type column
\* and the description say.
C6_LedgerColumnsTakePrecedence ==
  parsed.path = "csv" =>
    \A i \in 1..Len(parsed.rows) :
      LET record == parsed.rows[i].record
          amount == parsed.rows[i].tx.amount
      IN /\ ColumnPositive(record, Withdrawals)
            => amount = Negate(ParseFloat(Get(record, Withdrawals)))
         /\ (ColumnPositive(record, Deposits) /\ ~ColumnPositive(record, Withdrawals))
            => amount = ParseFloat(Get(record, Deposits))

\* a Deposits row whose type column is not a credit, and a row with both
\* columns positive whose type column is a credit
C6_Witness ==
  /\ parsed.path = "csv"
  /\ \E i, j \in 1..Len(parsed.rows) :
       LET r == parsed.rows[i].record
           q == parsed.rows[j].record
       IN /\ ColumnPositive(r, Deposits) /\ ~Truthy(Get(r, Withdrawals))
          /\ Truthy(Get(r, findField(r, typeFields)))
          /\ ~TypeIsCredit(Get(r, findField(r, typeFields)))
          /\ IsPositive(parsed.rows[i].tx.amount)
          /\ ColumnPositive(q, Deposits) /\ ColumnPositive(q, Withdrawals)
          /\ TypeIsCredit(Get(q, findField(q, typeFields)))
          /\ IsNegative(parsed.rows[j].tx.amount)

\* C7: when the delimited parse fails, parseStatement returns what the
\* line scanner yields on the same text (nothing when the scanner itself
\* fails); parseStatement never raises.
C7_FallbackReturnsScan ==
  parsed.path # "none" =>
    /\ ~parsed.raised
    /\ parsed.faults[2] =>
         LET scan == ScanLines(file.content,
                       AccountIdentifier(file.content, fileName, parsed.faults[1]))
         IN /\ Len(parsed.txs) = (IF AnyRaised(scan) THEN 0 ELSE Len(scan))
            /\ \A i \in 1..Len(parsed.txs) :
                 [parsed.txs[i] EXCEPT !.statementId = 0]
                   = [scan[i].tx EXCEPT !.statementId = 0]

\* the delimited parse failed and the scanner gave transactions
C7_Witness ==
  /\ parsed.faults[2]
  /\ parsed.path = "text"
  /\ Len(parsed.txs) > 0

\* C8: parseStatementWithGemini never raises; on a network error, a
\* non-success response, an envelope without text, text without JSON
\* array, or an exception while mapping an item it returns the empty list;
\* it returns no partial list.
C8_AssistedAllOrNothing ==
  assisted.response.kind # "none" =>
    /\ ~assisted.raised
    /\ assisted.response.kind \in {"network", "http", "envelope", "nojson", "nonarray"}
         => assisted.txs = <<>>
    /\ (\E k \in 1..Len(assisted.response.items) : ~assisted.response.items[k].isObject)
         => assisted.txs = <<>>
    /\ Len(assisted.txs) \in {0, Len(assisted.response.items)}

\* an array with an object and a null gave the empty list
C8_Witness ==
  /\ assisted.response.kind = "array"
  /\ \E k \in 1..Len(assisted.response.items) : assisted.response.items[k].isObject
  /\ \E k \in 1..Len(assisted.response.items) : ~assisted.response.items[k].isObject
  /\ assisted.txs = <<>>
  /\ ~assisted.raised

\* a transaction without the statementId its parser set
Unstamped(txs) == [i \in 1..Len(txs) |-> [txs[i] EXCEPT !.statementId = 0]]

\* C9: without GEMINI_API_KEY processStatement sends no request, and the
\* list it hands to createMany is the list parseStatement returns for the
\* content and the sanitized filename, stamped.
C9_NoKeyMeansParseStatement ==
  ~apiKey =>
    /\ requests = 0
    /\ assisted = NotAssisted
    /\ pc = "inserting" =>
         LET p == parseStatement(file.content, SanitizeFileName(file.name),
                                 parsed.faults[1], parsed.faults[2])
         IN /\ parseCalls = 1
            /\ Unstamped(parsedTransactions) = Unstamped(p.txs)
            /\ transactionsToInsert
                 = StampTransactions(p.txs, SanitizeFileName(file.name), clock)

\* without a key a non-empty list of parseStatement is handed over
C9_Witness ==
  /\ ~apiKey
  /\ pc = "inserting"
  /\ requests = 0
  /\ Len(transactionsToInsert) > 0

\* the strategies of processStatement have run
StrategiesDone ==
  \/ pc = "inserting"
  \/ pc = "done" /\ result.error \notin {"No file provided", "Empty file content"}

\* C10: the assisted extraction comes first; when it returns a non-empty
\* list that list is used and parseStatement is not invoked; parseStatement
\* is invoked exactly once if and only if the assisted extraction is
\* unavailable, raises or returns an empty list.
C10_FirstSuccessWins ==
  /\ parseCalls \in {0, 1}
  /\ pc \in {"idle", "reading", "fetching"} => parseCalls = 0
  /\ StrategiesDone =>
       /\ Len(assisted.txs) > 0
            => parseCalls = 0 /\ parsedTransactions = assisted.txs
       /\ parseCalls = 1
            <=> (~apiKey \/ assisted.raised \/ Len(assisted.txs) = 0)

\* the assisted list was used without a call of parseStatement
C10_Witness ==
  /\ pc = "inserting"
  /\ Len(assisted.txs) > 0
  /\ parseCalls = 0
  /\ parsedTransactions = assisted.txs

\* C11: all transactions one call of processStatement hands to createMany
\* carry the statementId processStatement generated for the call,
\* whichever parser produced them and whatever statementId it had set.
C11_OneStatementId ==
  /\ pc = "inserting" =>
       \A k \in 1..Len(transactionsToInsert) :
         transactionsToInsert[k].statementId = clock
  /\ (pc = "done" /\ result.success) =>
       \A k \in 1..Len(db) : db[k].statementId = clock

\* two transactions whose parser had set another statementId are handed over
C11_Witness ==
  /\ pc = "inserting"
  /\ Len(transactionsToInsert) >= 2
  /\ \A k \in 1..Len(parsedTransactions) : parsedTransactions[k].statementId # clock

\* C12: the parsers return transactions without id and without
\* statementId, and the records handed to createMany carry no id.
C12_IdsLeftToPersistence ==
  /\ \A k \in 1..Len(parsedTransactions) :
       /\ parsedTransactions[k].id = "none"
       /\ parsedTransactions[k].statementId = -1
  /\ \A k \in 1..Len(transactionsToInsert) : transactionsToInsert[k].id = "none"

\* C13: on a missing file or on empty content processStatement returns a
\* failure with its message, and no parser is invoked, no request is sent
\* and nothing is written to the store.
C13_RejectedBeforeParsing ==
  /\ (pc = "done" /\ ~file.present) => result = Failure("No file provided")
  /\ (pc = "done" /\ file.present /\ file.content = <<>>)
       => result = Failure("Empty file content")
  /\ result.error \in {"No file provided", "Empty file content"} =>
       /\ ~result.success
       /\ parseCalls = 0 /\ parsed = NotParsed
       /\ requests = 0 /\ assisted = NotAssisted
       /\ db = <<>> /\ transactionsToInsert = <<>>

\* a file with empty content was rejected while a key is set
C13_Witness ==
  /\ pc = "done"
  /\ apiKey
  /\ file.present /\ file.content = <<>>
  /\ result = Failure("Empty file content")

\* the error messages of processStatement
Messages ==
  {"No file provided", "Empty file content", "Failed to process statement file"}

\* C14: processStatement never raises: every exception, also of the bulk
\* insert, becomes {success: false, error}; success: true is returned
\* only when the insert completed, with transactionsCount the number of
\* records handed to it.
C14_NeverRaises ==
  /\ pc = "done" =>
       \/ \E m \in Messages : result = Failure(m)
       \/ result = Success(Len(transactionsToInsert))
  /\ pc # "done" => result = NoResult
  /\ result.success =>
       /\ pc = "done"
       /\ db = transactionsToInsert
       /\ result.transactionsCount = Len(transactionsToInsert)

\* the bulk insert of a non-empty list failed and a failure was returned
C14_Witness ==
  /\ pc = "done"
  /\ Len(transactionsToInsert) > 0
  /\ db = <<>>
  /\ result = Failure("Failed to process statement file")

\* C15: the request to the generation service is bounded by a timeout:
\* when the service never answers, processStatement still falls back and
\* eventually returns a result.
C15_AssistedCallBounded == (pc = "fetching") ~> (pc = "done")

\* s is the front of t
IsPrefix(s, t) == Len(s) <= Len(t) /\ SubSeq(t, 1, Len(s)) = s

\* the rows of the table when the call for file k began
StoredBefore(k) == IF k = 1 THEN <<>> ELSE toasts[k - 1].stored

\* the results the current run of handleSubmit has shown
ShownByRun == SubSeq(toasts, shownBefore + 1, Len(toasts))

\* C16: in one batch upload the files are processed one after the other
\* in list order, one call of processStatement per file, the next after
\* the previous has returned; a failure result neither stops the files
\* that follow nor undoes the transactions of the files before.
C16_BatchIsSequential ==
  /\ uploading =>
       /\ fileIndex \in 1..(Len(files) + 1)
       /\ Len(ShownByRun) = fileIndex - 1
       /\ pc # "idle" => (fileIndex <= Len(files) /\ file = files[fileIndex])
       /\ \A k \in 1..Len(ShownByRun) : ShownByRun[k].file = files[k]
  /\ \A k \in 1..Len(toasts) :
       /\ toasts[k].result # NoResult
       /\ IsPrefix(StoredBefore(k), toasts[k].stored)
       /\ IsPrefix(toasts[k].stored, db)
       /\ toasts[k].result.success =>
            Len(toasts[k].stored)
              = Len(StoredBefore(k)) + toasts[k].result.transactionsCount

\* a file stored its transactions, the next failed, the third stored its
\* transactions behind those of the first
C16_Witness ==
  /\ uploading
  /\ Len(ShownByRun) = 3
  /\ Len(toasts) = 3
  /\ toasts[1].result.success /\ toasts[1].result.transactionsCount > 0
  /\ ~toasts[2].result.success
  /\ toasts[3].result.success /\ toasts[3].result.transactionsCount > 0
  /\ Len(db) = toasts[1].result.transactionsCount + toasts[3].result.transactionsCount

\* C17: every transaction the pipeline emits, after the stamping of
\* processStatement, has a date, a description, an amount that is a
\* number, an accountId that is neither missing nor empty, and a
\* categoryId of null.
C17_EmittedComplete ==
  \A k \in 1..Len(transactionsToInsert) :
    /\ transactionsToInsert[k].date.valid
    /\ transactionsToInsert[k].description \notin {Undefined, <<>>}
    /\ ~transactionsToInsert[k].amount.nan
    /\ transactionsToInsert[k].accountId \notin {Undefined, <<>>}
    /\ transactionsToInsert[k].categoryId = NullCategory

\* the same without the condition on the content of accountId
C17_EmittedButAccount ==
  \A k \in 1..Len(transactionsToInsert) :
    /\ transactionsToInsert[k].date.valid
    /\ transactionsToInsert[k].description \notin {Undefined, <<>>}
    /\ ~transactionsToInsert[k].amount.nan
    /\ transactionsToInsert[k].accountId # Undefined
    /\ transactionsToInsert[k].categoryId = NullCategory

\* the leading run of digits, "/" and "-" of a text
DateTextOf(s) ==
  LET stops == {i \in 1..Len(s) : ~(IsDigit(s[i]) \/ s[i] \in {"/", "-"})}
  IN IF stops = {} THEN s
     ELSE SubSeq(s, 1, (CHOOSE i \in stops : \A j \in stops : i <= j) - 1)

\* a day and a month of two digits each, no year
IsDayMonthText(t) ==
  /\ Len(t) = 5
  /\ \A i \in {1, 2, 4, 5} : IsDigit(t[i])
  /\ t[3] \in {"/", "-"}

\* a day, a month and a year of two digits each
IsDayMonthYYText(t) ==
  /\ Len(t) = 8
  /\ \A i \in {1, 2, 4, 5, 7, 8} : IsDigit(t[i])
  /\ t[3] \in {"/", "-"} /\ t[6] \in {"/", "-"}

\* the date text of a returned row: the value of the date column, or the
\* date at the head of the scanned line
RowDateText(row) ==
  IF parsed.path = "csv"
  THEN Get(row.record, findField(row.record, dateFields))
  ELSE DateTextOf(Split(file.content, "\n")[row.line])

\* C18: a transaction whose date text has a day and a month but no year
\* carries the current calendar year, in the CSV path and in the
\* plain-text fallback; one whose date text has a two-digit year YY
\* carries the year 20YY.
C18_YearAssumed ==
  parsed.path \in {"csv", "text"} =>
    \A i \in 1..Len(parsed.rows) :
      LET t == RowDateText(parsed.rows[i])
          date == parsed.rows[i].tx.date
      IN /\ IsDayMonthText(t) => date.y = now.y
         /\ IsDayMonthYYText(t) => date.y = 2000 + DigitsValue(SubSeq(t, 7, 8))

\* the same for the plain-text fallback alone
C18_YearAssumedByScanner ==
  parsed.path = "text" =>
    \A i \in 1..Len(parsed.rows) :
      LET t == RowDateText(parsed.rows[i])
          date == parsed.rows[i].tx.date
      IN /\ IsDayMonthText(t) => date.y = now.y
         /\ IsDayMonthYYText(t) => date.y = 2000 + DigitsValue(SubSeq(t, 7, 8))

\* the listed names that are keys of the probed record
ListedKeys ==
  {k \in 1..Len(probeNames) :
     \E i \in 1..Len(probeRecord) : probeRecord[i][1] = probeNames[k]}

\* C19: findField returns the first listed name that is a key of the
\* record; if no listed name is a key, the record's first key in insertion
\* order; if the record has no keys, the empty string.  The record is left
\* as it was and a repeated call returns the same name.
C19_FindFieldContract ==
  probeFound # Undefined =>
    probeFound = (IF ListedKeys # {}
                  THEN probeNames[CHOOSE k \in ListedKeys : \A j \in ListedKeys : k <= j]
                  ELSE IF Len(probeRecord) > 0 THEN probeRecord[1][1]
                  ELSE <<>>)

\* the same, the record without a column name that is a number
C19_FindFieldWithoutIndexKeys ==
  (probeFound # Undefined
   /\ \A i \in 1..Len(probeRecord) : ~IsArrayIndex(probeRecord[i][1])) =>
    probeFound = (IF ListedKeys # {}
                  THEN probeNames[CHOOSE k \in ListedKeys : \A j \in ListedKeys : k <= j]
                  ELSE IF Len(probeRecord) > 0 THEN probeRecord[1][1]
                  ELSE <<>>)

\* C20: processStatement neither reads nor writes a process-wide
\* in-memory transaction store: the module-level array stays as it was at
\* start-up and the only store a call changes is the external one.
C20_NoProcessWideStore == transactions = <<>>

\* the lines of the uploaded text
LinesOfFile == Split(file.content, "\n")

\* the line holds a run of 8 or more digits
LongDigitLine(line) == \E i \in 1..Len(line) : DigitRun(line, i) >= 8

\* line i has the shape of the plain-text fallback: no long digit run, a
\* date token, and a two-decimal token two lines below
FitsShape(i) ==
  /\ ~LongDigitLine(LinesOfFile[i])
  /\ MatchDate(LinesOfFile[i]).found
  /\ MatchAmount(LineAt(LinesOfFile, i + 2)).found

\* the returned row of line i is the one the shape describes
ShapeRow(row) ==
  LET below == Trim(LineAt(LinesOfFile, row.line + 1))
      description == IF below = <<>> THEN UnknownTransaction ELSE below
      lower == ToLowerCase(description)
      credit == \E kw \in {KwCr, KwCredit, KwPayment, KwRefund, KwDeposit} :
                  Includes(lower, kw)
      token == MatchAmount(LineAt(LinesOfFile, row.line + 2)).text
  IN /\ row.tx.description = description
     /\ MathAbs(row.tx.amount) = ParseFloat(RemoveCommas(token))
     /\ IsPositive(row.tx.amount) = (credit /\ ~IsZero(row.tx.amount))
     /\ IsNegative(row.tx.amount) = (~credit /\ ~IsZero(row.tx.amount))

\* C21: in the plain-text fallback a line with a long digit run gives
\* nothing; any other line i with a date token gives a transaction if and
\* only if line i + 2 holds a two-decimal token, with the trimmed line
\* i + 1 as description ("Unknown transaction" if empty), the token
\* without commas as magnitude and a positive sign iff the description
\* holds cr, credit, payment, refund or deposit; other lines give nothing.
C21_ScannerShape ==
  (parsed.path # "none" /\ parsed.faults[2]) =>
    /\ \A i \in 1..Len(LinesOfFile) :
         FitsShape(i) <=> \E k \in 1..Len(parsed.rows) : parsed.rows[k].line = i
    /\ \A k \in 1..Len(parsed.rows) : ShapeRow(parsed.rows[k])

\* the same for texts whose date tokens are all calendar dates
C21_ScannerShapeOfReadableDates ==
  (/\ parsed.path # "none" /\ parsed.faults[2]
   /\ \A i \in 1..Len(LinesOfFile) :
        FitsShape(i) => PatternDate(MatchDate(LinesOfFile[i])).valid) =>
    /\ \A i \in 1..Len(LinesOfFile) :
         FitsShape(i) <=> \E k \in 1..Len(parsed.rows) : parsed.rows[k].line = i
    /\ \A k \in 1..Len(parsed.rows) : ShapeRow(parsed.rows[k])

\* the row is dated in the calendar month that lies n months before the
\* current one
InMonthBefore(date, n) ==
  12 * date.y + date.m = 12 * now.y + now.m - n

\* the rows of the table before any clearing that a call with the option
\* has to delete
HasToDelete(monthOption, date) ==
  CASE monthOption = "current" -> InMonthBefore(date, 0)
    [] monthOption = "previous" -> InMonthBefore(date, 1)
    [] monthOption = "2months" -> InMonthBefore(date, 2)
    [] monthOption = "3months" -> InMonthBefore(date, 3)
    [] monthOption = "all" -> TRUE
    [] monthOption = "older" -> DeleteCondition("older", date)
    [] OTHER -> FALSE

\* the table holds the rows that no finished call had to delete, in order
TableAfter(options) ==
  LET gone(row) == \E k \in 1..Len(cleared) :
                     cleared[k] \in options /\ HasToDelete(cleared[k], row.date)
  IN /\ \A i \in 1..Len(StoredRows) :
          gone(StoredRows[i]) <=> ~\E j \in 1..Len(db) : db[j] = StoredRows[i]
     /\ \A j \in 1..Len(db) : \E i \in 1..Len(StoredRows) : db[j] = StoredRows[i]

\* C22: clearTransactionsByMonth("current") deletes exactly the
\* transactions dated within the current calendar month and leaves the
\* transactions of every other month.
C22_CurrentMonthCleared ==
  (\A k \in 1..Len(cleared) : cleared[k] = "current") => TableAfter({"current"})

\* C26: clearTransactionsByMonth with "previous", "2months" or "3months"
\* deletes exactly the transactions of the calendar month 1, 2 or 3 months
\* before the current one, first day included, first day of the following
\* month excluded, also when that month lies in the previous year; an
\* option it does not know deletes nothing.
C26_EarlierMonthCleared ==
  (\A k \in 1..Len(cleared) : cleared[k] \in {"previous", "2months", "3months", "next"})
    => TableAfter({"previous", "2months", "3months", "next"})

\* in February the month 3 months ago, November of the year before, has
\* been cleared after a call with an unknown option: October and December
\* are still there
C26_Witness ==
  /\ now.m = 2
  /\ cleared = <<"next", "3months">>
  /\ Len(db) = Len(StoredRows) - 2
  /\ \A j \in 1..Len(db) : ~(db[j].date.y = now.y - 1 /\ db[j].date.m = 11)
  /\ \E j \in 1..Len(db) : db[j].date = MkDate(now.y - 1, 10, 31)
  /\ \E j \in 1..Len(db) : db[j].date = MkDate(now.y - 1, 12, 1)

\* the rows of a list
RowsOf(list) == {list[i] : i \in 1..Len(list)}

\* the transactions getTransactionSummary added up in the amount of a
\* category row, for the time range of the dashboard
Aggregated(category) ==
  {t \in RowsOf(db) :
     /\ timeRange = "all" \/ (~DateBefore(t.date, RangeStart(timeRange)) /\ ~DateBefore(now, t.date))
     /\ IsNegative(t.amount)
     /\ IF t.categoryId = NullCategory THEN category = Categories[3].name
        ELSE \E c \in 1..Len(Categories) :
               Categories[c].id = t.categoryId /\ Categories[c].name = category}

\* the row k of the breakdown is expanded and shows the answer to its own
\* request for the time range of the loaded summary
Expanded(k) ==
  /\ summaryPending = <<>>
  /\ summary = getTransactionSummary(timeRange)
  /\ k \in 1..Len(summary)
  /\ expandedCategory = ToLowerCase(summary[k].category)
  /\ pending = <<>>
  /\ ~loadingTransactions
  /\ categoryTransactions = getTransactionsByCategory(expandedCategory, timeRange)

\* C23: an expanded category row lists exactly the transactions that
\* getTransactionSummary aggregated into the amount of that category for
\* the same time range, the transactions without category under "Other".
C23_DrillDownMatchesSummary ==
  \A k \in 1..Len(Categories) :
    Expanded(k) => RowsOf(categoryTransactions) = Aggregated(summary[k].category)

\* the same for the expenses listed and for the categories other than
\* "Other"
C23_DrillDownOfCategorisedExpenses ==
  \A k \in 1..Len(Categories) :
    (Expanded(k) /\ summary[k].category # Categories[3].name) =>
      {t \in RowsOf(categoryTransactions) : IsNegative(t.amount)}
        = Aggregated(summary[k].category)

\* C30: whenever a category is expanded and loadingTransactions is false,
\* the displayed categoryTransactions are the answer to a
\* getTransactionsByCategory request for the expanded category; the
\* answers to requests for two categories, in whatever order they arrive,
\* never leave the transactions of one displayed under the other.
C30_ShownBelongToExpanded ==
  (expandedCategory # NullCategory /\ ~loadingTransactions) =>
    /\ \A i \in 1..Len(categoryTransactions) :
         categoryTransactions[i].categoryId = expandedCategory
    /\ \E range \in TimeRanges :
         categoryTransactions = getTransactionsByCategory(expandedCategory, range)

\* the amount the claim gives to an item: the number, the value read from
\* the string, 0 when it is missing or cannot be read
ClaimedAmount(item) ==
  CASE item.amountType = "number" -> item.amount
    [] item.amountType = "string" ->
         LET read == ParseFloat(CleanAmount(item.amountText))
         IN IF IsNaN(read) \/ IsZero(read) THEN Zero ELSE read
    [] OTHER -> Zero

\* the items of the answer in use
AnswerItems == assisted.response.items

\* C24 as stated: every item whose amount is a number, a string or missing
\* yields one output transaction of the assisted extraction.
C24_EveryItemKept ==
  assisted.response.kind = "array" =>
    Len(assisted.txs) >= Cardinality({k \in 1..Len(AnswerItems) : AnswerItems[k].isObject})

\* C24: when the array of the service holds objects only, the assisted
\* extraction returns one transaction per item, in order, with the amount
\* of the item, 0 when it is missing or unreadable; zero amounts are kept
\* and reach the table.
C24_ZeroAmountsKept ==
  (assisted.response.kind = "array"
   /\ \A k \in 1..Len(AnswerItems) : AnswerItems[k].isObject) =>
    /\ Len(assisted.txs) = Len(AnswerItems)
    /\ \A k \in 1..Len(AnswerItems) :
         assisted.txs[k].amount = ClaimedAmount(AnswerItems[k])
    /\ (pc = "done" /\ result.success /\ parseCalls = 0) =>
         /\ Len(db) = Len(AnswerItems)
         /\ \A k \in 1..Len(db) : db[k].amount = ClaimedAmount(AnswerItems[k])

\* an item without amount and one with an unreadable amount were stored
\* with amount 0
C24_Witness ==
  /\ pc = "done" /\ result.success /\ parseCalls = 0
  /\ Len(db) = 2
  /\ AnswerItems[1].amountType = "missing" /\ IsZero(db[1].amount)
  /\ AnswerItems[2].amountType = "string" /\ IsZero(db[2].amount)

\* C25: the stamping of processStatement gives the sanitized filename
\* token to exactly the transactions whose accountId is "unknown-account";
\* every other accountId, and every date, description, amount and
\* categoryId, reaches createMany as the parser returned it, and the
\* number and the order of the transactions are kept.
C25_StampingFrame ==
  pc = "inserting" =>
    /\ Len(transactionsToInsert) = Len(parsedTransactions)
    /\ \A k \in 1..Len(parsedTransactions) :
         /\ transactionsToInsert[k].accountId =
              (IF parsedTransactions[k].accountId = UnknownAccount THEN fileName
               ELSE parsedTransactions[k].accountId)
         /\ transactionsToInsert[k].date = parsedTransactions[k].date
         /\ transactionsToInsert[k].description = parsedTransactions[k].description
         /\ transactionsToInsert[k].amount = parsedTransactions[k].amount
         /\ transactionsToInsert[k].categoryId = parsedTransactions[k].categoryId

\* a list with the sentinel in its first transaction and an account number
\* in its second was stamped
C25_Witness ==
  /\ pc = "inserting"
  /\ Len(parsedTransactions) = 2
  /\ parsedTransactions[1].accountId = UnknownAccount
  /\ parsedTransactions[2].accountId \notin {UnknownAccount, fileName}
  /\ transactionsToInsert[1].accountId = fileName
  /\ transactionsToInsert[2].accountId = parsedTransactions[2].accountId

\* the transactions the call for file k stored
StoredBy(k) ==
  SubSeq(toasts[k].stored, Len(StoredBefore(k)) + 1, Len(toasts[k].stored))

\* C27: two different invocations of processStatement never stamp their
\* transactions with the same statementId, so the transactions of one
\* statementId are the output of a single upload.
C27_StatementIdPerCall ==
  \A k1, k2 \in 1..Len(toasts) :
    k1 < k2 =>
      \A i \in 1..Len(StoredBy(k1)), j \in 1..Len(StoredBy(k2)) :
        StoredBy(k1)[i].statementId # StoredBy(k2)[j].statementId

(***************************************************************************)
(* TransactionList (src/components/transaction-list.tsx).  The three       *)
(* confirmation dialogs are modal: dialogOpen names the one that is open,   *)
(* and the controls of the list are used while none is.                     *)
(***************************************************************************)

\* the rows of a list but those that a condition takes away
Without(rows, Gone(_)) ==
  LET stays(t) == ~Gone(t) IN SelectSeq(rows, stays)

\* filteredTransactions, by the account filter
filteredTransactions ==
  LET matchesAccount(t) == accountFilter = "all" \/ t.accountId = accountFilter
  IN SelectSeq(listed, matchesAccount)

\* the ids of a list of transactions
Ids(rows) == {rows[k].id : k \in 1..Len(rows)}

\* accountNumbers: the accounts of the transactions of the list
accountNumbers == {listed[k].accountId : k \in 1..Len(listed)}

\* the other variables of the model stay as they are
ListFrame ==
  UNCHANGED <<now, clock, file, apiKey, pc, fileName, requests, assisted,
              parseCalls, parsed, parsedTransactions, transactionsToInsert,
              result, transactions, form, probe, cleared, dashboard>>

\* loadTransactions, its call resolved: the list is replaced, the
\* selection is emptied, the select mode ends
LoadTransactions ==
  /\ dialogOpen = "none"
  /\ listed' = OrderByDateDesc(db)
  /\ selectedTransactions' = {}
  /\ selectMode' = FALSE
  /\ UNCHANGED <<db, accountFilter, dialogOpen, transactionToDelete, accountToDelete>>
  /\ ListFrame

\* toggleSelectMode
ToggleSelectMode ==
  /\ dialogOpen = "none"
  /\ selectMode' = ~selectMode
  /\ selectedTransactions' = {}
  /\ UNCHANGED <<db, listed, accountFilter, dialogOpen, transactionToDelete,
                 accountToDelete>>
  /\ ListFrame

\* toggleSelectTransaction, from the check box of a row that is shown
ToggleSelectTransaction(transactionId) ==
  /\ dialogOpen = "none"
  /\ selectMode
  /\ transactionId \in Ids(filteredTransactions)
  /\ selectedTransactions' =
       IF transactionId \in selectedTransactions
         THEN selectedTransactions \ {transactionId}
         ELSE selectedTransactions \cup {transactionId}
  /\ UNCHANGED <<db, listed, selectMode, accountFilter, dialogOpen,
                 transactionToDelete, accountToDelete>>
  /\ ListFrame

\* selectAllTransactions
SelectAllTransactions ==
  /\ dialogOpen = "none"
  /\ selectMode
  /\ filteredTransactions # <<>>
  /\ selectedTransactions' = Ids(filteredTransactions)
  /\ UNCHANGED <<db, listed, selectMode, accountFilter, dialogOpen,
                 transactionToDelete, accountToDelete>>
  /\ ListFrame

\* deselectAllTransactions
DeselectAllTransactions ==
  /\ dialogOpen = "none"
  /\ selectMode
  /\ filteredTransactions # <<>>
  /\ selectedTransactions # {}
  /\ selectedTransactions' = {}
  /\ UNCHANGED <<db, listed, selectMode, accountFilter, dialogOpen,
                 transactionToDelete, accountToDelete>>
  /\ ListFrame

\* setAccountFilter, from the select of the accounts
SetAccountFilter(accountId) ==
  /\ dialogOpen = "none"
  /\ accountId \in accountNumbers \cup {"all"}
  /\ accountFilter' = accountId
  /\ UNCHANGED <<db, listed, selectedTransactions, selectMode, dialogOpen,
                 transactionToDelete, accountToDelete>>
  /\ ListFrame

\* confirmDelete, from the button of a row, shown outside the select mode
ConfirmDelete(transactionId) ==
  /\ dialogOpen = "none"
  /\ ~selectMode
  /\ transactionId \in Ids(filteredTransactions)
  /\ transactionToDelete' = transactionId
  /\ dialogOpen' = "delete"
  /\ UNCHANGED <<db, listed, selectedTransactions, selectMode, accountFilter,
                 accountToDelete>>
  /\ ListFrame

\* handleDelete: deleteTransaction resolves and the row leaves the list,
\* or it rejects; the dialog is closed
HandleDelete(resolves) ==
  /\ dialogOpen = "delete"
  /\ transactionToDelete # NoMessage
  /\ LET Gone(t) == t.id = transactionToDelete
     IN IF resolves
          THEN db' = Without(db, Gone) /\ listed' = Without(listed, Gone)
          ELSE UNCHANGED <<db, listed>>
  /\ dialogOpen' = "none"
  /\ transactionToDelete' = NoMessage
  /\ UNCHANGED <<selectedTransactions, selectMode, accountFilter, accountToDelete>>
  /\ ListFrame

\* confirmDeleteMultiple
ConfirmDeleteMultiple ==
  /\ dialogOpen = "none"
  /\ selectMode
  /\ selectedTransactions # {}
  /\ dialogOpen' = "deleteMultiple"
  /\ UNCHANGED <<db, listed, selectedTransactions, selectMode, accountFilter,
                 transactionToDelete, accountToDelete>>
  /\ ListFrame

\* handleDeleteMultiple: deleteMultipleTransactions resolves, the selected
\* rows leave the list, the selection is emptied and the select mode ends,
\* or it rejects; the dialog is closed
HandleDeleteMultiple(resolves) ==
  /\ dialogOpen = "deleteMultiple"
  /\ selectedTransactions # {}
  /\ LET Gone(t) == t.id \in selectedTransactions
     IN IF resolves
          THEN /\ db' = Without(db, Gone)
               /\ listed' = Without(listed, Gone)
               /\ selectedTransactions' = {}
               /\ selectMode' = FALSE
          ELSE UNCHANGED <<db, listed, selectedTransactions, selectMode>>
  /\ dialogOpen' = "none"
  /\ UNCHANGED <<accountFilter, transactionToDelete, accountToDelete>>
  /\ ListFrame

\* confirmDeleteAccount, from the button next to the account filter
ConfirmDeleteAccount ==
  /\ dialogOpen = "none"
  /\ accountFilter # "all"
  /\ accountToDelete' = accountFilter
  /\ dialogOpen' = "deleteAccount"
  /\ UNCHANGED <<db, listed, selectedTransactions, selectMode, accountFilter,
                 transactionToDelete>>
  /\ ListFrame

\* handleDeleteAccount: deleteTransactionsByAccount resolves and the rows
\* of the account leave the list, or it rejects; the dialog is closed
HandleDeleteAccount(resolves) ==
  /\ dialogOpen = "deleteAccount"
  /\ accountToDelete # NoMessage
  /\ LET Gone(t) == t.accountId = accountToDelete
     IN IF resolves
          THEN db' = Without(db, Gone) /\ listed' = Without(listed, Gone)
          ELSE UNCHANGED <<db, listed>>
  /\ dialogOpen' = "none"
  /\ accountToDelete' = NoMessage
  /\ UNCHANGED <<selectedTransactions, selectMode, accountFilter, transactionToDelete>>
  /\ ListFrame

\* Cancel in a dialog: its open flag is set to false
CancelDialog ==
  /\ dialogOpen # "none"
  /\ dialogOpen' = "none"
  /\ UNCHANGED <<db, listed, selectedTransactions, selectMode, accountFilter,
                 transactionToDelete, accountToDelete>>
  /\ ListFrame

\* the transaction list over a table of a few rows, before its first load
InitList ==
  /\ now \in Today
  /\ clock = 0
  /\ apiKey = FALSE
  /\ file = NoFile
  /\ pc = "idle"
  /\ fileName = <<>>
  /\ requests = 0
  /\ assisted = NotAssisted
  /\ parseCalls = 0
  /\ parsed = NotParsed
  /\ parsedTransactions = <<>>
  /\ transactionsToInsert = <<>>
  /\ db \in ListTables
  /\ result = NoResult
  /\ transactions = <<>>
  /\ NoForm
  /\ NoProbe
  /\ NoClear
  /\ NoDashboard
  /\ NoList

NextList ==
  \/ LoadTransactions
  \/ ToggleSelectMode
  \/ \E transactionId \in Ids(ListRows) : ToggleSelectTransaction(transactionId)
  \/ SelectAllTransactions
  \/ DeselectAllTransactions
  \/ \E accountId \in {"all", "savings", "1111222233"} : SetAccountFilter(accountId)
  \/ \E transactionId \in Ids(ListRows) : ConfirmDelete(transactionId)
  \/ \E resolves \in BOOLEAN : HandleDelete(resolves)
  \/ ConfirmDeleteMultiple
  \/ \E resolves \in BOOLEAN : HandleDeleteMultiple(resolves)
  \/ ConfirmDeleteAccount
  \/ \E resolves \in BOOLEAN : HandleDeleteAccount(resolves)
  \/ CancelDialog

SpecList == InitList /\ [][NextList]_vars

\* C29: the selected transaction ids are ids of transactions held in the
\* list state, after any sequence of user actions, so the count of
\* "Delete Selected (n)" never includes a deleted transaction.
C29_SelectedAreListed == selectedTransactions \subseteq Ids(listed)

\* a file of the run that ended got a failure result
FailedInRun == \E k \in 1..Len(ShownByRun) : ~ShownByRun[k].result.success

\* C28: after a batch in which at least one file returned a failure the
\* form does not show the success message and does not clear the selected
\* file list; after a batch in which every file succeeded it shows the
\* success message and clears the list.
C28_SuccessOnlyWithoutFailure ==
  [][(uploading /\ ~uploading' /\ pc = "idle" /\ fileIndex = Len(files) + 1)
       => IF FailedInRun
            THEN success' = NoMessage /\ files' = files
            ELSE success' # NoMessage /\ files' = <<>>]_vars

\* C28, first half: a batch with a failure ends without the success message
C28_NoSuccessAfterFailure ==
  [][(uploading /\ ~uploading' /\ pc = "idle" /\ fileIndex = Len(files) + 1
        /\ FailedInRun)
       => (success' = NoMessage /\ files' = files)]_vars

\* C28, second half: a batch without a failure ends with the success message
C28_SuccessAfterAllSucceeded ==
  [][(uploading /\ ~uploading' /\ pc = "idle" /\ fileIndex = Len(files) + 1
        /\ ~FailedInRun)
       => (success' # NoMessage /\ files' = <<>>)]_vars

====
